---- MODULE Spec2Model ----
(***************************************************************************)
(* Model of the review catalogue backend (backend/server.js): the Express  *)
(* handlers that normalise genres/categories, write reviews, edit archived *)
(* snapshots and materialize them, running their SQL statements one at a   *)
(* time against pooled PostgreSQL connections.                             *)
(*                                                                         *)
(* A handler is a process: its position (pc) advances one awaited          *)
(* statement per step.  A pooled connection carries its transaction state  *)
(* ("none", "open", "aborted") and the rows written but not yet committed; *)
(* statements read the committed rows overlaid with the connection's own   *)
(* uncommitted rows (READ COMMITTED).                                      *)
(***************************************************************************)
EXTENDS Integers, Sequences, FiniteSets, TLC

VARIABLES db, conns, req, nreq, client

vars == <<db, conns, req, nreq, client>>

(***************************************************************************)
(* Bounds of the model.                                                    *)
(***************************************************************************)
MaxReq == 2        \* requests started in one behaviour of Spec
MaxReqNorm == 3    \* requests started in one behaviour of SpecNorm
MaxReqEdit == 3    \* requests started in one behaviour of SpecEdit
MaxReqConc == 2    \* requests started in one behaviour of SpecConc
MaxConn == 2       \* clients the pool may open
MaxCalls == 3      \* calls of the browser's API functions in one behaviour
MaxTicks == 2      \* half minutes the browser's clock may advance

Conns == 1..MaxConn
\* request slots; the sequential specifications run every request in slot 1,
\* SpecConc runs a request in each
Slots == {1, 2}

(***************************************************************************)
(* Values.  Every JSON / column value is a string token; Undef is a        *)
(* missing key (JS undefined), Null is JSON null / SQL NULL.  Row ids are  *)
(* integers, 0 standing for "no id" (null / not supplied).                 *)
(***************************************************************************)
Undef == "<undefined>"
Null == "<null>"
EmptyList == "[]"

Falsy(v) == v \in {Undef, Null, ""}

\* JS `v || null`
OrNull(v) == IF Falsy(v) THEN Null ELSE v

\* JS `v || []`
OrEmptyList(v) == IF Falsy(v) THEN EmptyList ELSE v

\* JS `v !== undefined ? v : null`
DefinedOrNull(v) == IF v = Undef THEN Null ELSE v

\* SQL lower(name) on the names the model uses
Lower(s) ==
  CASE s = "Act" -> "act"
    [] s = "ACT" -> "act"
    [] s = "Rpg" -> "rpg"
    [] s = "RPG" -> "rpg"
    [] OTHER -> s

\* JS String.prototype.trim on the names the model uses
Trim(s) ==
  CASE s = " G1" -> "G1"
    [] s = " G2" -> "G2"
    [] s = " " -> ""
    [] OTHER -> s

JKeys == {"title", "game_name", "review_text", "rating", "genre",
          "categoryName", "positive_points", "negative_points", "tags"}

EmptyJson == [k \in JKeys |-> Undef]

\* variant: the stored object is replaced by the incoming one
JsonReplace(a, b) == b

\* jsonb `a || b`: keys of b overwrite, keys absent from b are kept
JsonMerge(a, b) == [k \in JKeys |-> IF b[k] # Undef THEN b[k] ELSE a[k]]

\* jsonb_set(json, '{key}', to_jsonb(value), true)
JsonSet(j, key, v) == [j EXCEPT ![key] = v]

(***************************************************************************)
(* The store: committed tables, the pool's connections, id generators.     *)
(***************************************************************************)
Tables == {"games", "categories", "genres", "reviews", "archive"}

EmptyDb == [t \in Tables |-> {}]

\* rows written (w) and ids deleted (d) by a transaction, not yet committed
EmptyOv == [w |-> EmptyDb, d |-> EmptyDb]

Ids(rows) == {r.id : r \in rows}

Overlay(base, ov) ==
  [t \in Tables |->
     {r \in base[t] : r.id \notin (Ids(ov.w[t]) \cup ov.d[t])} \cup ov.w[t]]

Cur == [db |-> db, conns |-> conns]

\* a fresh id for a row of one of the tables ts (uuidv4(), or the id column's
\* default): one that no committed or uncommitted row of them carries
MaxOf(S) == IF S = {} THEN 0 ELSE CHOOSE x \in S : \A y \in S : y <= x

FreshId(s, ts) ==
  1 + MaxOf(UNION {Ids(s.db[t]) : t \in ts}
              \cup UNION {Ids(s.conns[c].ov.w[t]) : c \in Conns, t \in ts})

\* the rows a statement issued on connection c sees
ViewOf(s, c) == Overlay(s.db, s.conns[c].ov)

InTx(s, c) == s.conns[c].tx = "open"

\* INSERT / UPDATE of one row: into the transaction when one is open on the
\* connection, straight into the committed table otherwise (autocommit)
WriteRow(s, c, t, row) ==
  IF InTx(s, c)
    THEN [s EXCEPT !.conns[c].ov.w[t] = {r \in @ : r.id # row.id} \cup {row},
                   !.conns[c].ov.d[t] = @ \ {row.id}]
    ELSE [s EXCEPT !.db[t] = {r \in @ : r.id # row.id} \cup {row}]

\* variant: the statement removes the archive row of that id as well
DeleteWithArchive(s, c, t, id) ==
  [s EXCEPT !.db[t] = {r \in @ : r.id # id},
            !.db["archive"] = {r \in @ : r.id # id}]

\* DELETE of one row
DeleteRow(s, c, t, id) ==
  IF InTx(s, c)
    THEN [s EXCEPT !.conns[c].ov.w[t] = {r \in @ : r.id # id},
                   !.conns[c].ov.d[t] = @ \cup {id}]
    ELSE [s EXCEPT !.db[t] = {r \in @ : r.id # id}]

\* BEGIN: opens a transaction; inside one it only raises a warning
BeginTx(s, c) ==
  IF s.conns[c].tx = "none"
    THEN [s EXCEPT !.conns[c].tx = "open", !.conns[c].ov = EmptyOv]
    ELSE s

\* COMMIT: publishes the transaction's rows; on an aborted transaction it
\* rolls back; outside a transaction it only raises a warning
CommitTx(s, c) ==
  IF s.conns[c].tx = "open"
    THEN [s EXCEPT !.db = Overlay(s.db, s.conns[c].ov),
                   !.conns[c].tx = "none", !.conns[c].ov = EmptyOv]
    ELSE [s EXCEPT !.conns[c].tx = "none", !.conns[c].ov = EmptyOv]

\* variant: the statement publishes the transaction's rows
RollbackCommits(s, c) == CommitTx(s, c)

\* ROLLBACK: discards the transaction's rows
RollbackTx(s, c) ==
  [s EXCEPT !.conns[c].tx = "none", !.conns[c].ov = EmptyOv]

\* a statement that raises an error aborts the transaction it runs in: the
\* rows the transaction wrote can no longer be committed, so they are
\* dropped at once
AbortTx(s, c) ==
  IF s.conns[c].tx = "open"
    THEN [s EXCEPT !.conns[c].tx = "aborted", !.conns[c].ov = EmptyOv]
    ELSE s

\* another transaction holds an uncommitted write on the row: the statement
\* waits for that transaction to end
RowFree(c, t, id) ==
  \A c2 \in Conns \ {c} :
    id \notin (Ids(conns[c2].ov.w[t]) \cup conns[c2].ov.d[t])

\* another transaction holds an uncommitted row with the same lower(name)
NameFree(c, t, name) ==
  \A c2 \in Conns \ {c} :
    \A r \in conns[c2].ov.w[t] : Lower(r.name) # Lower(name)

(***************************************************************************)
(* Upserts of the normaliser (POST /api/categories, POST /api/genres,      *)
(* PATCH /api/reviews/:id/genre, materialize).                             *)
(***************************************************************************)
\* variant: the conflict target compares names exactly
ExactNameConflict(r, name) == r.name = name

\* ON CONFLICT (lower(name)): the row the insert conflicts with
NameConflict(r, name) == Lower(r.name) = Lower(name)

\* INSERT INTO categories (name) VALUES ($1)
\*   ON CONFLICT (lower(name)) DO UPDATE SET name = EXCLUDED.name RETURNING id
UpsertCategory(s, c, name) ==
  LET hit == {r \in ViewOf(s, c).categories : NameConflict(r, name)} IN
  IF hit # {}
    THEN LET r == CHOOSE x \in hit : TRUE IN
         [s |-> WriteRow(s, c, "categories", [id |-> r.id, name |-> name]),
          id |-> r.id]
    ELSE LET id == FreshId(s, {"categories"}) IN
         [s |-> WriteRow(s, c, "categories", [id |-> id, name |-> name]),
          id |-> id]

\* variant: SET category_id = EXCLUDED.category_id
TakeExcluded(excluded, existing) == excluded

\* COALESCE(EXCLUDED.category_id, genres.category_id)
CoalesceCategory(excluded, existing) ==
  IF excluded # 0 THEN excluded ELSE existing

\* INSERT INTO genres (name, category_id) VALUES ($1, $2)
\*   ON CONFLICT (lower(name)) DO UPDATE
\*   SET category_id = COALESCE(EXCLUDED.category_id, genres.category_id)
UpsertGenre(s, c, name, catId) ==
  LET hit == {r \in ViewOf(s, c).genres : NameConflict(r, name)} IN
  IF hit # {}
    THEN LET r == CHOOSE x \in hit : TRUE
             n == [r EXCEPT !.category_id = CoalesceCategory(catId, @)]
         IN [s |-> WriteRow(s, c, "genres", n), id |-> r.id, row |-> n]
    ELSE LET n == [id |-> FreshId(s, {"genres"}), name |-> name,
                   category_id |-> catId]
         IN [s |-> WriteRow(s, c, "genres", n), id |-> n.id, row |-> n]

\* SELECT g.name, g.category_id, c.name AS category_name
\*   FROM genres g LEFT JOIN categories c ON c.id = g.category_id WHERE g.id = $1
\* (found = FALSE when there is no such genre row)
GenreMeta(v, gid) ==
  LET gs == {g \in v.genres : g.id = gid} IN
  IF gs = {}
    THEN [found |-> FALSE, name |-> Null, category_id |-> 0, category_name |-> Null]
    ELSE LET g == CHOOSE x \in gs : TRUE
             cs == {x \in v.categories : x.id = g.category_id}
         IN [found |-> TRUE, name |-> g.name, category_id |-> g.category_id,
             category_name |-> IF cs = {} THEN Null
                               ELSE (CHOOSE x \in cs : TRUE).name]

(***************************************************************************)
(* Requests.  One record per request slot; pc is the statement the handler *)
(* is about to issue.                                                      *)
(***************************************************************************)
NoOut == [id |-> 0, name |-> Null, categoryId |-> 0, categoryName |-> Null,
          materialized |-> ""]

IdleReq ==
  [kind |-> "none", pc |-> "idle", conn |-> 0,
   id |-> 0, genreId |-> 0, genreName |-> "", categoryId |-> 0,
   categoryName |-> "", body |-> EmptyJson,
   finalCategoryId |-> 0, finalGenreId |-> 0, gameId |-> 0, target |-> 0,
   json |-> EmptyJson, status |-> 0, out |-> NoOut,
   failed |-> FALSE, swallowed |-> FALSE, fault |-> FALSE,
   acq |-> 0, rel |-> 0, pre |-> EmptyDb, last |-> [name |-> "", id |-> 0],
   left |-> {}, again |-> FALSE]

\* the handler's local variables, no longer read once it has left its try
\* block
NoLocals(r) ==
  [r EXCEPT !.finalCategoryId = 0, !.finalGenreId = 0, !.gameId = 0,
            !.target = 0, !.json = EmptyJson]

Free(p) == req[p].pc \in {"idle", "done"}

CanStart(p, max) == nreq < max /\ Free(p)

\* what a POST /api/categories remembers of the client's previous call, when
\* that was a POST /api/categories answering 201: the category's name and id
LastCategory(r, kind) ==
  IF kind = "postCategory" /\ r.kind = "postCategory" /\ r.status = 201
    THEN [name |-> r.categoryName, id |-> r.out.id]
    ELSE [name |-> "", id |-> 0]

\* the category rows the request r, answered 400 after its category upsert,
\* left uncommitted on the client it released
LeftBy(r) ==
  IF r.status = 400 /\ r.acq > 0
    THEN {x \in conns[r.conn].ov.w.categories :
            x.name = r.categoryName /\ x \notin db.categories}
    ELSE {}

\* a new request in slot p; pre records the committed rows it starts from,
\* left what the request before it left behind
NewReq(p, kind) ==
  [IdleReq EXCEPT !.kind = kind, !.pre = db, !.last = LastCategory(req[p], kind),
                  !.left = LeftBy(req[p])]

SetReq(p, r) == req' = [req EXCEPT ![p] = r] /\ UNCHANGED client

SetStore(s) == db' = s.db /\ conns' = s.conns

\* handlers whose catch block is followed by an outer try/catch that
\* answers 500 when the ROLLBACK itself throws
HasOuterCatch(kind) == kind \in {"postGenre", "postReview"}

(***************************************************************************)
(* The pool.  pool.connect() hands out an idle client when there is one    *)
(* and opens a new one otherwise; a released client goes back to the pool  *)
(* as it is.                                                               *)
(***************************************************************************)
IdleConns == {c \in Conns : conns[c].st = "idle"}
AbsentConns == {c \in Conns : conns[c].st = "absent"}

Acquirable ==
  IF IdleConns # {} THEN IdleConns
  ELSE IF AbsentConns # {}
         THEN {CHOOSE c \in AbsentConns : \A c2 \in AbsentConns : c <= c2}
         ELSE {}

\* const client = await pool.connect()
Connect(p, first) ==
  /\ req[p].pc = "connect"
  /\ \E c \in Acquirable :
       /\ conns' = [conns EXCEPT ![c].st = "busy"]
       /\ SetReq(p, [req[p] EXCEPT !.conn = c, !.acq = @ + 1, !.pc = first])
  /\ UNCHANGED <<db, nreq>>

\* what client.release() does to the client
Released(cn) == [cn EXCEPT !.st = "idle"]

\* finally { client.release() }: when the handler's next position r.pc is
\* "finally", control has left the try statement and the finally block runs
\* at once (nothing is awaited between the two)
Finally(s, r) ==
  IF r.pc = "finally"
    THEN [s |-> [s EXCEPT !.conns[r.conn] = Released(@)],
          r |-> NoLocals([r EXCEPT !.rel = @ + 1, !.pc = "done"])]
    ELSE [s |-> s, r |-> r]

\* the handler in slot p goes on as r with the store s
Continue(p, s, r) ==
  /\ SetStore(Finally(s, r).s)
  /\ SetReq(p, Finally(s, r).r)

(***************************************************************************)
(* Steps shared by the transactional handlers.                             *)
(***************************************************************************)
\* a statement issued on the handler's client succeeds: the store becomes s
\* and the handler continues as r
Exec(p, at, s, r) ==
  /\ req[p].pc = at
  /\ conns[req[p].conn].tx # "aborted"
  /\ Continue(p, s, r)
  /\ UNCHANGED nreq

\* the handler's code throws (no statement failed): control goes to catch
Throw(r) == NoLocals([r EXCEPT !.pc = "catch", !.failed = TRUE, !.out = NoOut])

\* variant: the early return leaves the handler without running finally
ReturnSkipsFinally == "done"

\* where a `return res.status(400)` inside the try block of
\* PATCH /api/reviews/:id/genre continues: the finally block
Return400Pc == "finally"

\* continuation of PATCH /api/reviews/:id/genre once the genre is resolved
PgToUpd(r) ==
  IF r.finalGenreId = 0
    THEN [r EXCEPT !.status = 400, !.pc = Return400Pc]
    ELSE [r EXCEPT !.pc = "pg_upd"]

\* materialize: `if (gameId)` look for an existing review, else insert
MToFind(r) == [r EXCEPT !.pc = IF r.gameId # 0 THEN "m_find" ELSE "m_ins"]

AfterGenre(r) ==
  CASE r.kind = "patchGenre" -> PgToUpd(r)
    [] r.kind = "postGenre" -> [r EXCEPT !.pc = "g_commit"]
    [] OTHER -> MToFind(r)

\* `if (!finalGenreId && genreName)`
ToGenre(r) ==
  IF r.finalGenreId = 0 /\ ~Falsy(r.genreName)
    THEN [r EXCEPT !.pc = "genre"]
    ELSE AfterGenre(r)

\* `if (!finalCategoryId && categoryName)`
ToCategory(r) ==
  IF r.finalCategoryId = 0 /\ ~Falsy(r.categoryName)
    THEN [r EXCEPT !.pc = "cat"]
    ELSE ToGenre(r)

AfterBegin(r) ==
  CASE r.kind \in {"patchGenre", "postGenre"} -> ToCategory(r)
    [] r.kind = "postReview" -> [r EXCEPT !.pc = "r_gsel"]
    [] r.kind = "putArchived" -> [r EXCEPT !.pc = "u_merge"]
    [] OTHER -> [r EXCEPT !.pc = "m_load"]

\* variant: the handler issues its statements without BEGIN
NoBegin(s, c) == s

\* the first statement of the try block: BEGIN
BeginStmt(s, c) == BeginTx(s, c)

\* await client.query("BEGIN")
Begin(p) ==
  Exec(p, "begin", BeginStmt(Cur, req[p].conn), AfterBegin(req[p]))

\* POST /api/genres: r2.rows[0] of `RETURNING id, name, category_id`
Returned(row) ==
  [NoOut EXCEPT !.id = row.id, !.name = row.name, !.categoryId = row.category_id]

\* POST /api/genres after COMMIT: `if (created.category_id)` read the
\* category's name through the pool, else answer 201
AfterGenreCommit(r) ==
  IF r.out.categoryId # 0
    THEN [r EXCEPT !.pc = "g_sel"]
    ELSE [r EXCEPT !.status = 201, !.pc = "finally"]

\* ensure category: upsert by name
EnsureCategory(p) ==
  LET r == req[p]
      u == UpsertCategory(Cur, r.conn, r.categoryName)
  IN /\ r.pc = "cat"
     /\ NameFree(r.conn, "categories", r.categoryName)
     /\ \A x \in ViewOf(Cur, r.conn).categories :
          NameConflict(x, r.categoryName) => RowFree(r.conn, "categories", x.id)
     /\ Exec(p, "cat", u.s, ToGenre([r EXCEPT !.finalCategoryId = u.id]))

\* ensure genre: upsert by name with the resolved category
EnsureGenre(p) ==
  LET r == req[p]
      u == UpsertGenre(Cur, r.conn, r.genreName, r.finalCategoryId)
  IN /\ r.pc = "genre"
     /\ NameFree(r.conn, "genres", r.genreName)
     /\ \A x \in ViewOf(Cur, r.conn).genres :
          NameConflict(x, r.genreName) => RowFree(r.conn, "genres", x.id)
     /\ Exec(p, "genre", u.s,
             AfterGenre([r EXCEPT !.finalGenreId = u.id,
                                  !.out = IF r.kind = "postGenre" THEN Returned(u.row) ELSE @]))

\* status of the success response sent after the final COMMIT
OkStatus(kind) == IF kind = "postReview" THEN 201 ELSE 200

\* await client.query("COMMIT") followed by the success response
Commit(p) ==
  LET r == req[p] IN
  Exec(p, "commit", CommitTx(Cur, r.conn),
       [r EXCEPT !.status = OkStatus(r.kind), !.pc = "finally"])

\* await client.query("ROLLBACK"); return res.status(404)
Rollback404(p) ==
  LET r == req[p] IN
  /\ r.pc = "rb404"
  /\ Continue(p, RollbackTx(Cur, r.conn), [r EXCEPT !.status = 404, !.pc = "finally"])
  /\ UNCHANGED nreq

\* what the catch block issues on the client
CatchStmt(s, c) == RollbackTx(s, c)

\* catch (err) { await client.query("ROLLBACK"); res.status(500) }
Catch(p) ==
  LET r == req[p] IN
  /\ r.pc = "catch"
  /\ Continue(p, CatchStmt(Cur, r.conn), [r EXCEPT !.status = 500, !.pc = "finally"])
  /\ UNCHANGED nreq

\* pcs at which the handler is about to issue a statement of its try block
TryPcs ==
  {"begin", "cat", "genre", "commit", "rb404",
   "pg_upd", "pg_arch", "pg_gsel", "pg_archupd", "pg_commit",
   "g_commit",
   "r_gsel", "r_gins", "r_ins", "r_arch",
   "u_merge", "u_read", "u_rsel", "u_gsel", "u_refs", "u_rename", "u_gins",
   "u_upd",
   "m_load", "m_gsel", "m_gins", "m_find", "m_upd", "m_reread", "m_ins",
   "m_meta"}

\* pcs inside materialize's inner try { ... } catch (e) { console.error }
WriteBackPcs == {"wb_game", "wb_gm", "wb_genre", "wb_cat"}

\* materialize after the write-back block: genre metadata, then COMMIT
MToMeta(r) == [r EXCEPT !.pc = IF r.finalGenreId # 0 THEN "m_meta" ELSE "commit"]

\* where control goes when the statement at r.pc raises an error
OnError(r) ==
  IF r.pc \in WriteBackPcs
    THEN MToMeta([r EXCEPT !.failed = TRUE, !.swallowed = TRUE])
    ELSE Throw(r)

\* the statement the handler issues raises an error (storage failure)
FailStmt(p) ==
  LET r == req[p] IN
  /\ r.pc \in (TryPcs \cup WriteBackPcs) \ {"rb404"}
  /\ conns[r.conn].tx # "aborted"
  /\ SetStore(AbortTx(Cur, r.conn))
  /\ SetReq(p, OnError([r EXCEPT !.fault = TRUE]))
  /\ UNCHANGED nreq

\* a statement other than COMMIT / ROLLBACK issued in an aborted transaction
\* is rejected ("current transaction is aborted")
StmtInAbortedTx(p) ==
  LET r == req[p] IN
  /\ r.pc \in (TryPcs \cup WriteBackPcs) \ {"commit", "g_commit", "pg_commit", "rb404"}
  /\ conns[r.conn].tx = "aborted"
  /\ SetReq(p, OnError(r))
  /\ UNCHANGED <<db, conns, nreq>>

\* COMMIT issued in an aborted transaction rolls back and reports success
CommitInAbortedTx(p) ==
  LET r == req[p] IN
  /\ r.pc \in {"commit", "g_commit", "pg_commit"}
  /\ conns[r.conn].tx = "aborted"
  /\ Continue(p, RollbackTx(Cur, r.conn),
              CASE r.pc = "commit" ->
                     [r EXCEPT !.status = OkStatus(r.kind), !.pc = "finally"]
                [] r.pc = "g_commit" -> AfterGenreCommit(r)
                [] OTHER -> [r EXCEPT !.pc = "pg_sel"])
  /\ UNCHANGED nreq

\* the ROLLBACK of the catch block itself fails (connection lost: the server
\* drops the transaction); the error leaves the catch block, the finally
\* block still runs, and only a handler with an outer try/catch answers
FailRollback(p) ==
  LET r == req[p] IN
  /\ r.pc = "catch"
  /\ Continue(p, RollbackTx(Cur, r.conn),
              [r EXCEPT !.status = IF HasOuterCatch(r.kind) THEN 500 ELSE 0,
                        !.failed = TRUE, !.fault = TRUE, !.pc = "finally"])
  /\ UNCHANGED nreq

(***************************************************************************)
(* pool.query(...): a statement run on whichever client the pool hands     *)
(* out.  The pool releases the client right after: back to the idle list   *)
(* when the statement succeeded, with the error when it failed, which      *)
(* removes the client from the pool and closes its connection (the server  *)
(* discards whatever transaction was open on it).                          *)
(***************************************************************************)
PoolRelease(s, c) == [s EXCEPT !.conns[c].st = "idle"]

\* pool.query raises an error on client c
PoolFail(s, c) ==
  [s EXCEPT !.conns[c] = [st |-> "absent", tx |-> "none", ov |-> EmptyOv]]

(***************************************************************************)
(* POST /api/categories                                                    *)
(***************************************************************************)
\* `!name || String(name).trim() === ""`
NameMissing(name) == Falsy(name) \/ Trim(name) = ""

CategoryNames == {"Act", "ACT"}
GenreNames == {"Rpg", "RPG"}

StartPostCategory(p, max) ==
  /\ CanStart(p, max)
  /\ \E name \in CategoryNames \cup {""} :
       SetReq(p, IF NameMissing(name)
                   THEN [NewReq(p, "postCategory") EXCEPT !.categoryName = name,
                           !.status = 400, !.pc = "done"]
                   ELSE [NewReq(p, "postCategory") EXCEPT !.categoryName = name,
                           !.pc = "c_query"])
  /\ nreq' = nreq + 1
  /\ UNCHANGED <<db, conns>>

\* pool.query(INSERT INTO categories ... ON CONFLICT ... RETURNING id, name)
PostCategoryQuery(p) ==
  LET r == req[p] IN
  /\ r.pc = "c_query"
  /\ \E c \in Acquirable :
       /\ NameFree(c, "categories", r.categoryName)
       /\ \A x \in ViewOf(Cur, c).categories :
            NameConflict(x, r.categoryName) => RowFree(c, "categories", x.id)
       /\ LET u == UpsertCategory(Cur, c, r.categoryName) IN
            /\ SetStore(PoolRelease(u.s, c))
            /\ SetReq(p, [r EXCEPT !.status = 201, !.pc = "done",
                            !.out = [NoOut EXCEPT !.id = u.id, !.name = r.categoryName]])
  /\ UNCHANGED nreq

\* a pool.query statement of a handler without its own client fails
FailPoolQuery(p) ==
  LET r == req[p] IN
  /\ r.pc \in {"c_query", "d_query"}
  /\ \E c \in Acquirable : SetStore(PoolFail(Cur, c))
  /\ SetReq(p, [r EXCEPT !.status = 500, !.failed = TRUE, !.fault = TRUE,
                         !.pc = "done"])
  /\ UNCHANGED nreq

(***************************************************************************)
(* POST /api/genres                                                        *)
(***************************************************************************)
\* ids a client can name: rows it has seen, or none (0)
KnownIds(t) == Ids(db[t]) \cup {0}

\* the { genreId, genreName, categoryId, categoryName } a client sends to
\* PATCH /api/reviews/:id/genre and to materialize: names in either casing,
\* ids of rows it has seen, or nothing
NoArgs == [genreId |-> 0, genreName |-> "", categoryId |-> 0, categoryName |-> ""]

GenreArgs ==
  {NoArgs,
   [NoArgs EXCEPT !.genreName = "Rpg"],
   [NoArgs EXCEPT !.genreName = "RPG", !.categoryName = "Act"],
   [NoArgs EXCEPT !.categoryName = "ACT"]}
    \cup {[NoArgs EXCEPT !.genreId = g] : g \in Ids(db.genres)}
    \cup {[NoArgs EXCEPT !.genreName = "Rpg", !.categoryId = c] : c \in Ids(db.categories)}

\* an id that names no row
UnknownId == 99

\* the same, a second genre, and what a careless client sends: a genre name
\* of whitespace only, a genreId that names no genre row
WideArgs ==
  GenreArgs \cup {[NoArgs EXCEPT !.genreName = "Sim"],
                  [NoArgs EXCEPT !.genreName = " "],
                  [NoArgs EXCEPT !.genreId = UnknownId]}

StartPostGenre(p, max) ==
  /\ CanStart(p, max)
  /\ \E name \in GenreNames \cup {"", " "}, categoryId \in KnownIds("categories"),
        categoryName \in CategoryNames \cup {""} :
       /\ categoryId # 0 => categoryName = ""
       /\ SetReq(p, IF NameMissing(name)
                      THEN [NewReq(p, "postGenre") EXCEPT !.genreName = name,
                              !.status = 400, !.pc = "done"]
                      ELSE [NewReq(p, "postGenre") EXCEPT !.genreName = name,
                              !.categoryId = categoryId, !.categoryName = categoryName,
                              !.finalCategoryId = categoryId, !.pc = "connect"])
  /\ nreq' = nreq + 1
  /\ UNCHANGED <<db, conns>>

\* await client.query("COMMIT") of POST /api/genres
PostGenreCommit(p) ==
  LET r == req[p] IN
  Exec(p, "g_commit", CommitTx(Cur, r.conn), AfterGenreCommit(r))

\* pool.query(SELECT id, name FROM categories WHERE id = $1) while the
\* handler still holds its client; c.rows[0].name throws when no row matches
PostGenreSelect(p) ==
  LET r == req[p] IN
  /\ r.pc = "g_sel"
  /\ \E c \in Acquirable :
       LET cs == {x \in ViewOf(Cur, c).categories : x.id = r.out.categoryId} IN
       Continue(p, PoolRelease(Cur, c),
                IF cs = {}
                  THEN Throw(r)
                  ELSE [r EXCEPT !.out.categoryName = (CHOOSE x \in cs : TRUE).name,
                                 !.status = 201, !.pc = "finally"])
  /\ UNCHANGED nreq

\* a pool.query statement issued while the handler holds its client fails
FailInnerPoolQuery(p) ==
  LET r == req[p] IN
  /\ r.pc \in {"g_sel", "pg_sel"}
  /\ \E c \in Acquirable : SetStore(PoolFail(Cur, c))
  /\ SetReq(p, Throw([r EXCEPT !.fault = TRUE]))
  /\ UNCHANGED nreq

(***************************************************************************)
(* PATCH /api/reviews/:id/genre                                            *)
(***************************************************************************)
\* ids a client can put in the path: a review's, an archive row's, or one
\* that names nothing
PathIds == Ids(db.reviews) \cup Ids(db.archive) \cup {UnknownId}

StartPatchGenre(p, max, args) ==
  /\ CanStart(p, max)
  /\ \E id \in PathIds, a \in args :
       SetReq(p, [NewReq(p, "patchGenre") EXCEPT !.id = id,
                    !.genreId = a.genreId, !.genreName = a.genreName,
                    !.categoryId = a.categoryId, !.categoryName = a.categoryName,
                    !.finalCategoryId = a.categoryId, !.finalGenreId = a.genreId,
                    !.pc = "connect"])
  /\ nreq' = nreq + 1
  /\ UNCHANGED <<db, conns>>

\* reviews.genre_id REFERENCES genres(id)
GenreFkOk(v, gid) == gid = 0 \/ gid \in Ids(v.genres)

\* UPDATE reviews SET genre_id = $1 WHERE id = $2 RETURNING *
PatchUpdateReview(p) ==
  LET r == req[p]
      v == ViewOf(Cur, r.conn)
      rows == {x \in v.reviews : x.id = r.id}
  IN /\ r.pc = "pg_upd"
     /\ RowFree(r.conn, "reviews", r.id)
     /\ IF rows = {}
          THEN Exec(p, "pg_upd", Cur, [r EXCEPT !.pc = "pg_arch"])
          ELSE IF ~GenreFkOk(v, r.finalGenreId)
                 THEN Exec(p, "pg_upd", AbortTx(Cur, r.conn), OnError(r))
                 ELSE LET row == CHOOSE x \in rows : TRUE IN
                      Exec(p, "pg_upd",
                           WriteRow(Cur, r.conn, "reviews",
                                    [row EXCEPT !.genre_id = r.finalGenreId]),
                           [r EXCEPT !.out.id = r.id, !.pc = "pg_commit"])

\* SELECT id FROM archived_reviews WHERE id = $1
PatchSelectArchived(p) ==
  LET r == req[p]
      v == ViewOf(Cur, r.conn)
  IN Exec(p, "pg_arch", Cur,
          [r EXCEPT !.pc = IF r.id \in Ids(v.archive) THEN "pg_gsel" ELSE "rb404"])

\* `const patch = { genre: gName }; if (cName) patch.categoryName = cName;`
GenrePatch(meta) ==
  [EmptyJson EXCEPT !["genre"] = meta.name,
                    !["categoryName"] = IF Falsy(meta.category_name) THEN Undef
                                        ELSE meta.category_name]

\* SELECT g.name, g.category_id, c.name ... WHERE g.id = $1; destructuring
\* gRes.rows[0] throws when there is no such genre
PatchSelectGenre(p) ==
  LET r == req[p]
      meta == GenreMeta(ViewOf(Cur, r.conn), r.finalGenreId)
  IN Exec(p, "pg_gsel", Cur,
          IF ~meta.found THEN Throw(r)
          ELSE [r EXCEPT !.json = GenrePatch(meta),
                         !.out = [NoOut EXCEPT !.id = r.id, !.name = meta.name,
                                    !.categoryId = meta.category_id,
                                    !.categoryName = meta.category_name],
                         !.pc = "pg_archupd"])

\* variant: the statement leaves the archive row as it is
KeepArchiveJson(s, c, id, patch) == s

\* UPDATE archived_reviews SET review_json = COALESCE(review_json,'{}') || $1
MergeArchive(s, c, id, patch) ==
  LET rows == {x \in ViewOf(s, c).archive : x.id = id} IN
  IF rows = {} THEN s
  ELSE LET row == CHOOSE x \in rows : TRUE IN
       WriteRow(s, c, "archive", [row EXCEPT !.json = JsonMerge(@, patch)])

\* archive-only id: patch the archive JSON, then COMMIT and answer
PatchUpdateArchived(p) ==
  LET r == req[p] IN
  /\ r.pc = "pg_archupd"
  /\ RowFree(r.conn, "archive", r.id)
  /\ Exec(p, "pg_archupd", MergeArchive(Cur, r.conn, r.id, r.json),
          [r EXCEPT !.pc = "commit"])

\* await client.query("COMMIT") when the review row was updated
PatchCommit(p) ==
  LET r == req[p] IN
  Exec(p, "pg_commit", CommitTx(Cur, r.conn), [r EXCEPT !.pc = "pg_sel"])

\* pool.query(SELECT g.id, g.name, ... WHERE g.id = $1); res.json(...)
PatchSelectResult(p) ==
  LET r == req[p] IN
  /\ r.pc = "pg_sel"
  /\ \E c \in Acquirable :
       LET meta == GenreMeta(ViewOf(Cur, c), r.finalGenreId) IN
       Continue(p, PoolRelease(Cur, c),
                [r EXCEPT !.out.name = meta.name,
                          !.out.categoryId = meta.category_id,
                          !.out.categoryName = meta.category_name,
                          !.status = 200, !.pc = "finally"])
  /\ UNCHANGED nreq

(***************************************************************************)
(* POST /api/reviews                                                       *)
(***************************************************************************)
\* a submission as the UI sends it
Submission(game, genre) ==
  [EmptyJson EXCEPT !["title"] = "T", !["game_name"] = game,
                    !["review_text"] = "x", !["rating"] = "8",
                    !["genre"] = genre]

GameNames == {"G1", " G1"}

ReviewBodies ==
  {Submission(g, Undef) : g \in GameNames}
    \cup {Submission("G1", "Rpg"), [Submission("G1", Undef) EXCEPT !["title"] = ""]}

\* `!title || !game_name || !review_text || rating === undefined`
MissingRequired(b) ==
  \/ Falsy(b["title"])
  \/ Falsy(b["game_name"])
  \/ Falsy(b["review_text"])
  \/ b["rating"] = Undef

\* originalReviewJson
OriginalReviewJson(b) ==
  [EmptyJson EXCEPT !["title"] = b["title"], !["game_name"] = b["game_name"],
                    !["review_text"] = b["review_text"], !["rating"] = b["rating"],
                    !["genre"] = OrNull(b["genre"]),
                    !["positive_points"] = OrEmptyList(b["positive_points"]),
                    !["negative_points"] = OrEmptyList(b["negative_points"]),
                    !["tags"] = OrEmptyList(b["tags"])]

StartPostReview(p, max) ==
  /\ CanStart(p, max)
  /\ \E b \in ReviewBodies :
       SetReq(p, IF MissingRequired(b)
                   THEN [NewReq(p, "postReview") EXCEPT !.body = b, !.status = 400,
                           !.pc = "done"]
                   ELSE [NewReq(p, "postReview") EXCEPT !.body = b, !.pc = "connect"])
  /\ nreq' = nreq + 1
  /\ UNCHANGED <<db, conns>>

\* the rows of SELECT ... FROM games WHERE game_name = $1
GamesNamed(v, name) == {g \in v.games : g.name = name}

\* SELECT * FROM games WHERE game_name = $1; reuse the first row when present
PostReviewSelectGame(p) ==
  LET r == req[p]
      found == GamesNamed(ViewOf(Cur, r.conn), r.body["game_name"])
  IN /\ r.pc = "r_gsel"
     /\ IF found = {}
          THEN Exec(p, "r_gsel", Cur, [r EXCEPT !.pc = "r_gins"])
          ELSE \E g \in found :
                 Exec(p, "r_gsel", Cur, [r EXCEPT !.gameId = g.id, !.pc = "r_ins"])

\* INSERT INTO games (id, game_name) VALUES (uuidv4(), name)
Uuid(s) == FreshId(s, {"games", "reviews", "archive"})

InsertGame(s, c, name) ==
  LET id == Uuid(s) IN
  [s |-> WriteRow(s, c, "games", [id |-> id, name |-> name]), id |-> id]

PostReviewInsertGame(p) ==
  LET r == req[p]
      u == InsertGame(Cur, r.conn, r.body["game_name"])
  IN Exec(p, "r_gins", u.s, [r EXCEPT !.gameId = u.id, !.pc = "r_ins"])

\* the review row POST /api/reviews inserts
SubmittedReview(id, gameId, b) ==
  [id |-> id, game_id |-> gameId, title |-> b["title"],
   review_text |-> b["review_text"], rating |-> b["rating"],
   positive_points |-> OrEmptyList(b["positive_points"]),
   negative_points |-> OrEmptyList(b["negative_points"]),
   tags |-> OrEmptyList(b["tags"]), genre |-> OrNull(b["genre"]),
   genre_id |-> 0]

\* const reviewId = uuidv4(); INSERT INTO reviews (...) RETURNING *
PostReviewInsert(p) ==
  LET r == req[p]
      id == Uuid(Cur)
  IN Exec(p, "r_ins",
          WriteRow(Cur, r.conn, "reviews",
                   SubmittedReview(id, r.gameId, r.body)),
          [r EXCEPT !.out.id = id, !.pc = "r_arch"])

\* INSERT INTO archived_reviews (id, review_json, created_at)
PostReviewArchive(p) ==
  LET r == req[p] IN
  Exec(p, "r_arch",
       WriteRow(Cur, r.conn, "archive",
                [id |-> r.out.id, json |-> OriginalReviewJson(r.body)]),
       [r EXCEPT !.pc = "commit"])

(***************************************************************************)
(* DELETE /api/reviews/:id                                                 *)
(***************************************************************************)
StartDeleteReview(p, max) ==
  /\ CanStart(p, max)
  /\ \E id \in PathIds :
       SetReq(p, [NewReq(p, "deleteReview") EXCEPT !.id = id, !.pc = "d_query"])
  /\ nreq' = nreq + 1
  /\ UNCHANGED <<db, conns>>

\* pool.query("DELETE FROM reviews WHERE id = $1")
DeleteReviewQuery(p) ==
  LET r == req[p] IN
  /\ r.pc = "d_query"
  /\ \E c \in Acquirable :
       /\ RowFree(c, "reviews", r.id)
       /\ SetStore(PoolRelease(IF r.id \in Ids(ViewOf(Cur, c).reviews)
                                  THEN DeleteRow(Cur, c, "reviews", r.id)
                                  ELSE Cur, c))
       /\ SetReq(p, [r EXCEPT !.pc = "done",
                       !.status = IF r.id \in Ids(ViewOf(Cur, c).reviews)
                                    THEN 200 ELSE 404])
  /\ UNCHANGED nreq

(***************************************************************************)
(* PUT /api/archived-reviews/:id                                           *)
(***************************************************************************)
\* objects the archive editor sends
EditBodies ==
  {[EmptyJson EXCEPT !["game_name"] = g] : g \in {"G1", "G2", ""}}
    \cup {[EmptyJson EXCEPT !["title"] = "T2", !["genre"] = "Rpg"]}

\* the same, and edits that pad the game name or clear the genre
WideBodies ==
  EditBodies \cup {[EmptyJson EXCEPT !["game_name"] = " G2"],
                   [EmptyJson EXCEPT !["genre"] = ""]}

StartPutArchived(p, max, bodies) ==
  /\ CanStart(p, max)
  /\ \E id \in PathIds, b \in bodies :
       SetReq(p, [NewReq(p, "putArchived") EXCEPT !.id = id, !.body = b,
                    !.pc = "connect"])
  /\ nreq' = nreq + 1
  /\ UNCHANGED <<db, conns>>

\* UPDATE archived_reviews SET review_json = COALESCE(review_json,'{}') || $1
PutMerge(p) ==
  LET r == req[p] IN
  /\ r.pc = "u_merge"
  /\ RowFree(r.conn, "archive", r.id)
  /\ Exec(p, "u_merge", MergeArchive(Cur, r.conn, r.id, r.body),
          [r EXCEPT !.pc = "u_read"])

\* SELECT review_json FROM archived_reviews WHERE id = $1
PutReadMerged(p) ==
  LET r == req[p]
      rows == {x \in ViewOf(Cur, r.conn).archive : x.id = r.id}
  IN Exec(p, "u_read", Cur,
          IF rows = {} THEN [r EXCEPT !.pc = "rb404"]
          ELSE [r EXCEPT !.json = (CHOOSE x \in rows : TRUE).json, !.pc = "u_rsel"])

\* SELECT * FROM reviews WHERE id = $1; `if (game_name)` resolve the game
PutSelectReview(p) ==
  LET r == req[p]
      rows == {x \in ViewOf(Cur, r.conn).reviews : x.id = r.id}
  IN Exec(p, "u_rsel", Cur,
          IF rows = {} THEN [r EXCEPT !.pc = "commit"]
          ELSE [r EXCEPT !.target = (CHOOSE x \in rows : TRUE).game_id,
                         !.pc = IF Falsy(r.json["game_name"]) THEN "u_upd"
                                ELSE "u_gsel"])

\* SELECT id FROM games WHERE game_name = $1 LIMIT 1
PutSelectGame(p) ==
  LET r == req[p]
      found == GamesNamed(ViewOf(Cur, r.conn), r.json["game_name"])
  IN /\ r.pc = "u_gsel"
     /\ IF found = {}
          THEN Exec(p, "u_gsel", Cur,
                    [r EXCEPT !.pc = IF r.target # 0 THEN "u_refs" ELSE "u_gins"])
          ELSE \E g \in found :
                 Exec(p, "u_gsel", Cur, [r EXCEPT !.gameId = g.id, !.pc = "u_upd"])

\* SELECT COUNT(*)::int AS cnt FROM reviews WHERE game_id = $1
RefCount(v, gameId) == Cardinality({x \in v.reviews : x.game_id = gameId})

\* variant: the game row is renamed whatever the reference count
AlwaysRename(refCount) == TRUE

\* `if (refCount === 1)` rename in place, else create a new game
RenameInPlace(refCount) == refCount = 1

PutCountRefs(p) ==
  LET r == req[p]
      refCount == RefCount(ViewOf(Cur, r.conn), r.target)
  IN Exec(p, "u_refs", Cur,
          [r EXCEPT !.pc = IF RenameInPlace(refCount) THEN "u_rename" ELSE "u_gins"])

\* UPDATE games SET game_name = $1 WHERE id = $2
PutRenameGame(p) ==
  LET r == req[p]
      rows == {g \in ViewOf(Cur, r.conn).games : g.id = r.target}
  IN /\ r.pc = "u_rename"
     /\ RowFree(r.conn, "games", r.target)
     /\ Exec(p, "u_rename",
             IF rows = {} THEN Cur
             ELSE WriteRow(Cur, r.conn, "games",
                           [id |-> r.target, name |-> r.json["game_name"]]),
             [r EXCEPT !.gameId = r.target, !.pc = "u_upd"])

\* gameId = uuidv4(); INSERT INTO games (id, game_name)
PutInsertGame(p) ==
  LET r == req[p]
      u == InsertGame(Cur, r.conn, r.json["game_name"])
  IN Exec(p, "u_gins", u.s, [r EXCEPT !.gameId = u.id, !.pc = "u_upd"])

\* variant: the edit leaves the review row as it is
KeepReview(row, j, gameId) == row

\* the review row after UPDATE reviews SET title = ..., genre = ... [, game_id]
EditedReview(row, j, gameId) ==
  [row EXCEPT !.title = OrNull(j["title"]),
              !.review_text = OrNull(j["review_text"]),
              !.rating = DefinedOrNull(j["rating"]),
              !.positive_points = OrEmptyList(j["positive_points"]),
              !.negative_points = OrEmptyList(j["negative_points"]),
              !.tags = OrEmptyList(j["tags"]),
              !.game_id = IF gameId # 0 THEN gameId ELSE @,
              !.genre = OrNull(j["genre"])]

PutUpdateReview(p) ==
  LET r == req[p]
      rows == {x \in ViewOf(Cur, r.conn).reviews : x.id = r.id}
  IN /\ r.pc = "u_upd"
     /\ RowFree(r.conn, "reviews", r.id)
     /\ Exec(p, "u_upd",
             IF rows = {} THEN Cur
             ELSE WriteRow(Cur, r.conn, "reviews",
                           EditedReview(CHOOSE x \in rows : TRUE, r.json, r.gameId)),
             [r EXCEPT !.pc = "commit"])

(***************************************************************************)
(* POST /api/archived-reviews/:id/materialize                              *)
(***************************************************************************)
\* the call repeats the call r before it: r was a materialize of the same
\* archive id with the same options, answered 200
Again(r, id, a) ==
  /\ r.kind = "materialize" /\ r.status = 200 /\ ~r.fault
  /\ r.id = id
  /\ a = [genreId |-> r.genreId, genreName |-> r.genreName,
          categoryId |-> r.categoryId, categoryName |-> r.categoryName]

StartMaterialize(p, max) ==
  /\ CanStart(p, max)
  /\ \E id \in PathIds, a \in GenreArgs :
       SetReq(p, [NewReq(p, "materialize") EXCEPT !.id = id,
                    !.again = Again(req[p], id, a),
                    !.genreId = a.genreId, !.genreName = a.genreName,
                    !.categoryId = a.categoryId, !.categoryName = a.categoryName,
                    !.finalCategoryId = a.categoryId, !.finalGenreId = a.genreId,
                    !.pc = "connect"])
  /\ nreq' = nreq + 1
  /\ UNCHANGED <<db, conns>>

\* const gameName = (reviewJson.game_name || "").trim()
GameNameOf(j) == Trim(IF Falsy(j["game_name"]) THEN "" ELSE j["game_name"])

\* SELECT review_json FROM archived_reviews WHERE id = $1
MatLoad(p) ==
  LET r == req[p]
      rows == {x \in ViewOf(Cur, r.conn).archive : x.id = r.id}
  IN Exec(p, "m_load", Cur,
          IF rows = {} THEN [r EXCEPT !.pc = "rb404"]
          ELSE LET j == (CHOOSE x \in rows : TRUE).json IN
               IF GameNameOf(j) # ""
                 THEN [r EXCEPT !.json = j, !.pc = "m_gsel"]
                 ELSE ToCategory([r EXCEPT !.json = j]))

\* SELECT id FROM games WHERE game_name = $1 LIMIT 1
MatSelectGame(p) ==
  LET r == req[p]
      found == GamesNamed(ViewOf(Cur, r.conn), GameNameOf(r.json))
  IN /\ r.pc = "m_gsel"
     /\ IF found = {}
          THEN Exec(p, "m_gsel", Cur, [r EXCEPT !.pc = "m_gins"])
          ELSE \E g \in found :
                 Exec(p, "m_gsel", Cur, ToCategory([r EXCEPT !.gameId = g.id]))

\* INSERT INTO games (id, game_name) VALUES (uuidv4(), gameName) RETURNING id
MatInsertGame(p) ==
  LET r == req[p]
      u == InsertGame(Cur, r.conn, GameNameOf(r.json))
  IN Exec(p, "m_gins", u.s, ToCategory([r EXCEPT !.gameId = u.id]))

\* variant: the lookup of an existing review never finds one
NoReviewsOfGame(v, gameId) == {}

\* the reviews SELECT id FROM reviews WHERE game_id = $1 returns
ReviewsOfGame(v, gameId) == {x \in v.reviews : x.game_id = gameId}

\* find existing review for this game (LIMIT 1)
MatFindExisting(p) ==
  LET r == req[p]
      found == ReviewsOfGame(ViewOf(Cur, r.conn), r.gameId)
  IN /\ r.pc = "m_find"
     /\ IF found = {}
          THEN Exec(p, "m_find", Cur, [r EXCEPT !.pc = "m_ins"])
          ELSE \E x \in found :
                 Exec(p, "m_find", Cur, [r EXCEPT !.target = x.id, !.pc = "m_upd"])

\* the review row after materialize's UPDATE reviews SET ...
RefreshedReview(row, j, genreId, gameId) ==
  [row EXCEPT !.title = OrNull(j["title"]),
              !.review_text = OrNull(j["review_text"]),
              !.rating = DefinedOrNull(j["rating"]),
              !.positive_points = OrEmptyList(j["positive_points"]),
              !.negative_points = OrEmptyList(j["negative_points"]),
              !.tags = OrEmptyList(j["tags"]),
              !.genre_id = genreId,
              !.game_id = gameId]

\* UPDATE reviews SET ... WHERE id = existing.id
MatUpdate(p) ==
  LET r == req[p]
      v == ViewOf(Cur, r.conn)
      rows == {x \in v.reviews : x.id = r.target}
  IN /\ r.pc = "m_upd"
     /\ RowFree(r.conn, "reviews", r.target)
     /\ IF rows # {} /\ ~GenreFkOk(v, r.finalGenreId)
          THEN Exec(p, "m_upd", AbortTx(Cur, r.conn), OnError(r))
          ELSE Exec(p, "m_upd",
                    IF rows = {} THEN Cur
                    ELSE WriteRow(Cur, r.conn, "reviews",
                           RefreshedReview(CHOOSE x \in rows : TRUE, r.json,
                                           r.finalGenreId, r.gameId)),
                    [r EXCEPT !.pc = "m_reread"])

\* first statement of the write-back block, or what follows the block
ToWriteBack(r) ==
  IF GameNameOf(r.json) # "" THEN [r EXCEPT !.pc = "wb_game"]
  ELSE IF r.finalGenreId # 0 THEN [r EXCEPT !.pc = "wb_gm"]
  ELSE MToMeta(r)

\* SELECT * FROM reviews WHERE id = existing.id
MatReread(p) ==
  LET r == req[p] IN
  Exec(p, "m_reread", Cur,
       ToWriteBack([r EXCEPT !.out.id = r.target, !.out.materialized = "updated"]))

\* variant: the inserted review gets an id of its own
FreshReviewId(r) == FreshId(Cur, {"games", "reviews", "archive"})

\* the id of the review materialize inserts: `const newId = archivedId`
NewReviewId(r) == r.id

\* the review row materialize inserts
MaterializedReview(id, j, genreId, gameId) ==
  [id |-> id, game_id |-> gameId, title |-> OrNull(j["title"]),
   review_text |-> OrNull(j["review_text"]), rating |-> DefinedOrNull(j["rating"]),
   positive_points |-> OrEmptyList(j["positive_points"]),
   negative_points |-> OrEmptyList(j["negative_points"]),
   tags |-> OrEmptyList(j["tags"]), genre |-> Null, genre_id |-> genreId]

\* INSERT INTO reviews (id, ...) VALUES (archivedId, ...) RETURNING *
MatInsert(p) ==
  LET r == req[p]
      v == ViewOf(Cur, r.conn)
      id == NewReviewId(r)
  IN /\ r.pc = "m_ins"
     /\ RowFree(r.conn, "reviews", id)
     /\ IF id \in Ids(v.reviews) \/ ~GenreFkOk(v, r.finalGenreId)
          THEN Exec(p, "m_ins", AbortTx(Cur, r.conn), OnError(r))
          ELSE Exec(p, "m_ins",
                    WriteRow(Cur, r.conn, "reviews",
                             MaterializedReview(id, r.json, r.finalGenreId, r.gameId)),
                    ToWriteBack([r EXCEPT !.out.id = id,
                                          !.out.materialized = "created"]))

\* variant: the write-back leaves the archive row as it is
KeepArchive(s, c, id, key, value) == s

\* UPDATE archived_reviews SET review_json = jsonb_set(review_json, key, value)
SetArchiveKey(s, c, id, key, value) ==
  LET rows == {x \in ViewOf(s, c).archive : x.id = id} IN
  IF rows = {} THEN s
  ELSE LET row == CHOOSE x \in rows : TRUE IN
       WriteRow(s, c, "archive", [row EXCEPT !.json = JsonSet(@, key, value)])

\* write-back: game_name
WriteBackGame(p) ==
  LET r == req[p] IN
  /\ r.pc = "wb_game"
  /\ RowFree(r.conn, "archive", r.id)
  /\ Exec(p, "wb_game",
          SetArchiveKey(Cur, r.conn, r.id, "game_name", GameNameOf(r.json)),
          IF r.finalGenreId # 0 THEN [r EXCEPT !.pc = "wb_gm"] ELSE MToMeta(r))

\* after the genre's names were read: the next write-back statement
AfterGenreNames(r) ==
  IF ~Falsy(r.out.name) THEN [r EXCEPT !.pc = "wb_genre"]
  ELSE IF ~Falsy(r.out.categoryName) THEN [r EXCEPT !.pc = "wb_cat"]
  ELSE MToMeta(r)

\* write-back: SELECT g.name AS genre_name, c.name AS category_name
WriteBackSelect(p) ==
  LET r == req[p]
      meta == GenreMeta(ViewOf(Cur, r.conn), r.finalGenreId)
  IN Exec(p, "wb_gm", Cur,
          AfterGenreNames([r EXCEPT !.out.name = OrNull(meta.name),
                                    !.out.categoryName = OrNull(meta.category_name)]))

\* write-back: genre
WriteBackGenre(p) ==
  LET r == req[p] IN
  /\ r.pc = "wb_genre"
  /\ RowFree(r.conn, "archive", r.id)
  /\ Exec(p, "wb_genre",
          SetArchiveKey(Cur, r.conn, r.id, "genre", r.out.name),
          IF ~Falsy(r.out.categoryName) THEN [r EXCEPT !.pc = "wb_cat"]
          ELSE MToMeta(r))

\* write-back: categoryName
WriteBackCategory(p) ==
  LET r == req[p] IN
  /\ r.pc = "wb_cat"
  /\ RowFree(r.conn, "archive", r.id)
  /\ Exec(p, "wb_cat",
          SetArchiveKey(Cur, r.conn, r.id, "categoryName", r.out.categoryName),
          MToMeta(r))

\* attach resolved genre metadata: SELECT g.id, g.name, g.category_id, ...
MatGenreMeta(p) ==
  LET r == req[p]
      meta == GenreMeta(ViewOf(Cur, r.conn), r.finalGenreId)
  IN Exec(p, "m_meta", Cur,
          [r EXCEPT !.out.name = meta.name, !.out.categoryId = meta.category_id,
                    !.out.categoryName = meta.category_name, !.pc = "commit"])

(***************************************************************************)
(* The browser's API functions (updateReviewGenre, getGenres, createGenre).*)
(* They run on one JavaScript thread: a call runs up to its next await of  *)
(* fetch() in one step and resumes in one step when the response is there  *)
(* (response.json() hands the response on as the result);                  *)
(* the server answers in a step of its own, so that two calls in flight    *)
(* are answered and resumed in any order.  A response is its status and    *)
(* its body; the body of GET /api/genres carries the genre rows and, as    *)
(* asOf, how many genres the server had created when it read them.         *)
(***************************************************************************)
\* calls that may be in flight at the same time
Calls == {1, 2}

\* const GENRES_CACHE_TTL = 60 * 1000
GENRES_CACHE_TTL == 60000

\* a call that has not run yet: its arguments and every local still blank.
\* sent lists the requests the call has made, each <<method, route, id, body>>;
\* resp is the response it last awaited and result what it returned, both a
\* status, the route and request the body answers, and the body's rows
BlankCall ==
  [fn |-> "", pc |-> "idle", id |-> 0, opts |-> NoArgs, force |-> FALSE,
   sent |-> <<>>,
   resp |-> [status |-> 0, by |-> "", id |-> 0, opts |-> NoArgs,
             list |-> {}, asOf |-> 0],
   first |-> 0,
   result |-> [status |-> 0, by |-> "", id |-> 0, opts |-> NoArgs,
               list |-> {}, asOf |-> 0],
   thrown |-> FALSE, cached |-> FALSE, at |-> 0, until |-> 0, must |-> 0]

\* the page after loading: let _genresCache = null, no call made.  posted
\* counts the genres the server has created, floor is the latest of them a
\* resolved createGenre has reported
IdleClient ==
  [now |-> 0,
   cache |-> [set |-> FALSE, value |-> {}, asOf |-> 0, expiresAt |-> 0],
   posted |-> 0, floor |-> 0, ncall |-> 0,
   calls |-> [c \in Calls |-> [fn |-> "", pc |-> "idle"]]]

\* variant: every response counts as a success
AnyStatusOk(status) == TRUE

\* response.ok
ResponseOk(status) == status >= 200 /\ status < 300

\* updateReviewGenre(id, opts) is called in a free slot and runs to its
\* fetch(`/api/reviews/${id}/genre`, PATCH)
StartUpdateReviewGenre(c) ==
  \E id \in {1, UnknownId}, opts \in {[NoArgs EXCEPT !.genreName = "Rpg"]} :
    /\ client.ncall < MaxCalls
    /\ client.calls[c].pc \in {"idle", "done"}
    /\ client' = [client EXCEPT
         !.ncall = @ + 1,
         !.calls[c] = [BlankCall EXCEPT
            !.fn = "updateReviewGenre", !.pc = "sent", !.id = id,
            !.opts = opts,
            !.sent = <<(<<"PATCH", "reviews/genre", id, opts>>)>>]]
    /\ UNCHANGED <<db, conns, req, nreq>>

\* if (response.ok) return response.json();
\* if (response.status === 404) materializeArchivedReview(id, opts): POST
\*   /api/archived-reviews/${archivedId}/materialize;
\* throw new Error(text)
UpdateReviewGenreResumes(c) ==
  LET k == client.calls[c] IN
  /\ k.fn = "updateReviewGenre" /\ k.pc = "answered" /\ Len(k.sent) = 1
  /\ client' =
       IF ResponseOk(k.resp.status)
           THEN [client EXCEPT !.calls[c].pc = "done",
                               !.calls[c].first = k.resp.status,
                               !.calls[c].result = k.resp]
           ELSE IF k.resp.status = 404
             THEN [client EXCEPT !.calls[c].pc = "sent",
                                 !.calls[c].first = k.resp.status,
                                 !.calls[c].sent = Append(@,
                                    <<"POST", "materialize", k.id, k.opts>>)]
             ELSE [client EXCEPT !.calls[c].pc = "done",
                                 !.calls[c].first = k.resp.status,
                                 !.calls[c].thrown = TRUE]
  /\ UNCHANGED <<db, conns, req, nreq>>

\* materializeArchivedReview: if (!res.ok) throw new Error(txt);
\* return res.json(), which updateReviewGenre returns
MaterializeResumes(c) ==
  LET k == client.calls[c] IN
  /\ k.fn = "updateReviewGenre" /\ k.pc = "answered" /\ Len(k.sent) = 2
  /\ client' =
       IF ResponseOk(k.resp.status)
           THEN [client EXCEPT !.calls[c].pc = "done",
                               !.calls[c].result = k.resp]
           ELSE [client EXCEPT !.calls[c].pc = "done", !.calls[c].thrown = TRUE]
  /\ UNCHANGED <<db, conns, req, nreq>>

\* getGenres(force) is called in a free slot: const now = Date.now();
\* if (!force && _genresCache && _genresCache.expiresAt > now)
\*   return _genresCache.value;
\* fetch(`/api/genres`)
StartGetGenres(c) ==
  \E force \in BOOLEAN :
    LET k == [BlankCall EXCEPT !.fn = "getGenres", !.force = force,
                               !.at = client.now, !.must = client.floor]
    IN
    /\ client.ncall < MaxCalls
    /\ client.calls[c].pc \in {"idle", "done"}
    /\ client' = [client EXCEPT
         !.ncall = @ + 1,
         !.calls[c] =
            IF ~force /\ client.cache.set /\ client.cache.expiresAt > client.now
              THEN [k EXCEPT !.pc = "done", !.cached = TRUE,
                             !.until = client.cache.expiresAt,
                             !.result.by = "genres",
                             !.result.list = client.cache.value,
                             !.result.asOf = client.cache.asOf]
              ELSE [k EXCEPT !.pc = "sent",
                             !.sent = <<(<<"GET", "genres", 0, NoArgs>>)>>]]
    /\ UNCHANGED <<db, conns, req, nreq>>

\* if (!res.ok) throw new Error("Failed to fetch genres");
\* _genresCache = { value: genres, expiresAt: Date.now() + GENRES_CACHE_TTL };
\* return genres
GetGenresResumes(c) ==
  LET k == client.calls[c] IN
  /\ k.fn = "getGenres" /\ k.pc = "answered" /\ Len(k.sent) = 1
  /\ client' =
       IF ResponseOk(k.resp.status)
           THEN [client EXCEPT
                   !.cache = [IdleClient.cache EXCEPT
                      !.set = TRUE, !.value = k.resp.list,
                      !.asOf = k.resp.asOf,
                      !.expiresAt = client.now + GENRES_CACHE_TTL],
                   !.calls[c].pc = "done", !.calls[c].result = k.resp]
           ELSE [client EXCEPT !.calls[c].pc = "done", !.calls[c].thrown = TRUE]
  /\ UNCHANGED <<db, conns, req, nreq>>

\* createGenre(opts) is called in a free slot and runs to its
\* fetch(`/api/genres`, POST)
StartCreateGenre(c) ==
  \E name \in {"Rpg"} :
    LET opts == [NoArgs EXCEPT !.genreName = name] IN
    /\ client.ncall < MaxCalls
    /\ client.calls[c].pc \in {"idle", "done"}
    /\ client' = [client EXCEPT
         !.ncall = @ + 1,
         !.calls[c] = [BlankCall EXCEPT
            !.fn = "createGenre", !.pc = "sent", !.opts = opts,
            !.sent = <<(<<"POST", "genres", 0, opts>>)>>]]
    /\ UNCHANGED <<db, conns, req, nreq>>

\* if (!res.ok) throw new Error("Failed to create genre");
\* _genresCache = null; return res.json()
CreateGenreResumes(c) ==
  LET k == client.calls[c] IN
  /\ k.fn = "createGenre" /\ k.pc = "answered" /\ Len(k.sent) = 1
  /\ client' =
       IF ResponseOk(k.resp.status)
           THEN [client EXCEPT
                   !.cache = IdleClient.cache,
                   !.floor = IF k.resp.asOf > @ THEN k.resp.asOf ELSE @,
                   !.calls[c].pc = "done", !.calls[c].result = k.resp]
           ELSE [client EXCEPT !.calls[c].pc = "done", !.calls[c].thrown = TRUE]
  /\ UNCHANGED <<db, conns, req, nreq>>

\* the server answers the request <<method, route, id, body>> a call is
\* waiting for.  GET /api/genres answers the genre rows or 500; POST
\* /api/genres creates the genre and answers 201, or answers 500 and creates
\* nothing; PATCH /api/reviews/:id/genre and POST
\* /api/archived-reviews/:id/materialize answer one of their statuses and a
\* body naming the route and the request
Answer(c) ==
  LET k == client.calls[c]
      q == k.sent[Len(k.sent)]
      e == [BlankCall.resp EXCEPT !.by = q[2], !.id = q[3], !.opts = q[4]]
  IN
  /\ k.pc = "sent"
  /\ \E status \in {200, 201, 400, 404, 500} :
       IF q[2] = "genres"
         THEN IF q[1] = "GET"
           THEN /\ status \in {200, 500}
                /\ client' = [client EXCEPT
                     !.calls[c].pc = "answered",
                     !.calls[c].resp =
                        IF status = 200
                          THEN [e EXCEPT !.status = status, !.list = db.genres,
                                         !.asOf = client.posted]
                          ELSE [e EXCEPT !.status = status]]
                /\ UNCHANGED db
           ELSE /\ status \in {201, 500}
                /\ IF status = 201
                     THEN LET u == UpsertGenre(Cur, 1, q[4].genreName, 0) IN
                          /\ db' = u.s.db
                          /\ client' = [client EXCEPT
                               !.posted = @ + 1,
                               !.calls[c].pc = "answered",
                               !.calls[c].resp =
                                  [e EXCEPT !.status = status, !.id = u.id,
                                            !.asOf = client.posted + 1]]
                     ELSE /\ client' = [client EXCEPT
                               !.calls[c].pc = "answered",
                               !.calls[c].resp = [e EXCEPT !.status = status]]
                          /\ UNCHANGED db
         ELSE /\ status \in {200, 400, 404, 500}
              /\ client' = [client EXCEPT
                   !.calls[c].pc = "answered",
                   !.calls[c].resp = [e EXCEPT !.status = status]]
              /\ UNCHANGED db
  /\ UNCHANGED <<conns, req, nreq>>

\* Date.now() advances by half a minute
Tick ==
  /\ client.now < MaxTicks * 30000
  /\ client' = [client EXCEPT !.now = @ + 30000]
  /\ UNCHANGED <<db, conns, req, nreq>>

(***************************************************************************)
(* Specification: requests run one after another.                          *)
(***************************************************************************)
InitConn == [st |-> "absent", tx |-> "none", ov |-> EmptyOv]

\* archive rows imported without a normalized review
ImportedJson(game) ==
  [EmptyJson EXCEPT !["title"] = "A", !["game_name"] = game,
                    !["review_text"] = "y", !["rating"] = "9"]

Imported ==
  [EmptyDb EXCEPT !.archive = {[id |-> 1, json |-> ImportedJson(" G1")],
                               [id |-> 2, json |-> ImportedJson("G1")],
                               [id |-> 3, json |-> ImportedJson(Undef)]}]

Init ==
  /\ db = Imported
  /\ conns = [c \in Conns |-> InitConn]
  /\ req = [p \in Slots |-> IdleReq]
  /\ nreq = 0
  /\ client = IdleClient

\* steps of the transactional handlers that every specification shares
TxSteps(p) ==
  \/ Connect(p, "begin")
  \/ Begin(p)
  \/ Commit(p)
  \/ Rollback404(p)
  \/ Catch(p)
  \/ FailStmt(p)
  \/ FailRollback(p)

NormSteps(p) ==
  \/ PostCategoryQuery(p)
  \/ PostGenreCommit(p)
  \/ PostGenreSelect(p)
  \/ FailInnerPoolQuery(p)
  \/ PatchUpdateReview(p)
  \/ PatchSelectArchived(p)
  \/ PatchSelectGenre(p)
  \/ PatchUpdateArchived(p)
  \/ PatchCommit(p)
  \/ PatchSelectResult(p)

GenreSteps(p) ==
  \/ EnsureCategory(p)
  \/ EnsureGenre(p)

PostReviewSteps(p) ==
  \/ PostReviewSelectGame(p)
  \/ PostReviewInsertGame(p)
  \/ PostReviewInsert(p)
  \/ PostReviewArchive(p)

EditSteps(p) ==
  \/ DeleteReviewQuery(p)
  \/ PutMerge(p)
  \/ PutReadMerged(p)
  \/ PutSelectReview(p)
  \/ PutSelectGame(p)
  \/ PutCountRefs(p)
  \/ PutRenameGame(p)
  \/ PutInsertGame(p)
  \/ PutUpdateReview(p)

MatSteps(p) ==
  \/ MatLoad(p)
  \/ MatSelectGame(p)
  \/ MatInsertGame(p)
  \/ MatFindExisting(p)
  \/ MatUpdate(p)
  \/ MatReread(p)
  \/ MatInsert(p)
  \/ WriteBackGame(p)
  \/ WriteBackSelect(p)
  \/ WriteBackGenre(p)
  \/ WriteBackCategory(p)
  \/ MatGenreMeta(p)
  \/ StmtInAbortedTx(p)
  \/ CommitInAbortedTx(p)

Next ==
  \/ StartPostCategory(1, MaxReq)
  \/ StartPostGenre(1, MaxReq)
  \/ StartPatchGenre(1, MaxReq, GenreArgs)
  \/ StartPostReview(1, MaxReq)
  \/ StartDeleteReview(1, MaxReq)
  \/ StartPutArchived(1, MaxReq, EditBodies)
  \/ StartMaterialize(1, MaxReq)
  \/ FailPoolQuery(1)
  \/ TxSteps(1)
  \/ NormSteps(1)
  \/ GenreSteps(1)
  \/ PostReviewSteps(1)
  \/ EditSteps(1)
  \/ MatSteps(1)

Spec == Init /\ [][Next]_vars

(***************************************************************************)
(* SpecEdit: submissions, archive edits and deletions only, one more       *)
(* request deep.                                                           *)
(***************************************************************************)
NextEdit ==
  \/ StartPostReview(1, MaxReqEdit)
  \/ StartDeleteReview(1, MaxReqEdit)
  \/ StartPutArchived(1, MaxReqEdit, WideBodies)
  \/ FailPoolQuery(1)
  \/ TxSteps(1)
  \/ PostReviewSteps(1)
  \/ EditSteps(1)

SpecEdit == Init /\ [][NextEdit]_vars

(***************************************************************************)
(* SpecNorm: the normaliser's endpoints with what a careless client sends, *)
(* submissions and deletions, one more request deep, on a database that    *)
(* already holds one submitted review.                                     *)
(***************************************************************************)
\* the database after POST /api/reviews of Submission("G1", Undef)
Submitted ==
  [Imported EXCEPT
     !.games = {[id |-> 4, name |-> "G1"]},
     !.reviews = {SubmittedReview(5, 4, Submission("G1", Undef))},
     !.archive = @ \cup {[id |-> 5, json |-> OriginalReviewJson(Submission("G1", Undef))]}]

InitNorm ==
  /\ db = Submitted
  /\ conns = [c \in Conns |-> InitConn]
  /\ req = [p \in Slots |-> IdleReq]
  /\ nreq = 0
  /\ client = IdleClient

NextNorm ==
  \/ StartPostCategory(1, MaxReqNorm)
  \/ StartPostGenre(1, MaxReqNorm)
  \/ StartPatchGenre(1, MaxReqNorm, WideArgs)
  \/ StartPostReview(1, MaxReqNorm)
  \/ StartDeleteReview(1, MaxReqNorm)
  \/ FailPoolQuery(1)
  \/ TxSteps(1)
  \/ NormSteps(1)
  \/ GenreSteps(1)
  \/ PostReviewSteps(1)
  \/ DeleteReviewQuery(1)

SpecNorm == InitNorm /\ [][NextNorm]_vars

(***************************************************************************)
(* SpecConc: two requests at a time (submissions, archive edits and         *)
(* materialize calls), their statements interleaved, each on its own        *)
(* client, on a database that already holds one submitted review.  No       *)
(* statement is made to fail.                                               *)
(***************************************************************************)
NextConc ==
  \E p \in Slots :
    \/ StartPostReview(p, MaxReqConc)
    \/ StartPutArchived(p, MaxReqConc, EditBodies)
    \/ StartMaterialize(p, MaxReqConc)
    \/ Connect(p, "begin")
    \/ Begin(p)
    \/ Commit(p)
    \/ Rollback404(p)
    \/ Catch(p)
    \/ GenreSteps(p)
    \/ PostReviewSteps(p)
    \/ PutMerge(p)
    \/ PutReadMerged(p)
    \/ PutSelectReview(p)
    \/ PutSelectGame(p)
    \/ PutCountRefs(p)
    \/ PutRenameGame(p)
    \/ PutInsertGame(p)
    \/ PutUpdateReview(p)
    \/ MatLoad(p)
    \/ MatSelectGame(p)
    \/ MatInsertGame(p)
    \/ MatFindExisting(p)
    \/ MatUpdate(p)
    \/ MatReread(p)
    \/ MatInsert(p)
    \/ WriteBackGame(p)
    \/ WriteBackSelect(p)
    \/ WriteBackGenre(p)
    \/ WriteBackCategory(p)
    \/ MatGenreMeta(p)

SpecConc == InitNorm /\ [][NextConc]_vars

(***************************************************************************)
(* Specification: the browser calls its API functions, at most two at a    *)
(* time, against a server that answers each request once.                  *)
(***************************************************************************)
NextClient ==
  \/ Tick
  \/ \E c \in Calls :
       \/ StartUpdateReviewGenre(c)
       \/ UpdateReviewGenreResumes(c)
       \/ MaterializeResumes(c)
       \/ StartGetGenres(c)
       \/ GetGenresResumes(c)
       \/ StartCreateGenre(c)
       \/ CreateGenreResumes(c)
       \/ Answer(c)

SpecClient == Init /\ [][NextClient]_vars

(***************************************************************************)
(* Properties of the handlers.  A finished request r still carries what it *)
(* was asked (kind, id, names, body), what it answered (status, out), the  *)
(* committed rows it started from (pre) and whether a statement of it was  *)
(* made to fail (fault) or raised an error (failed).                       *)
(***************************************************************************)
WriteKinds == {"postReview", "putArchived", "materialize"}

\* a name that is not blank: `(game_name || "").trim()` is not empty
NonBlank(v) == ~Falsy(v) /\ Trim(v) # ""

\* the ids a request names are ids of rows that exist
ArgsExist(r) ==
  /\ r.genreId = 0 \/ r.genreId \in Ids(r.pre.genres)
  /\ r.categoryId = 0 \/ r.categoryId \in Ids(r.pre.categories)

\* C1: when a statement of POST /api/reviews, PUT /api/archived-reviews/:id
\* or materialize has failed, the committed rows are, once the handler is
\* done, exactly the rows the operation started from.
C1_FailureLeavesNoTrace ==
  \A p \in Slots :
    LET r == req[p] IN
    (r.kind \in WriteKinds /\ r.pc = "done" /\ r.failed) => db = r.pre

\* a materialize that had inserted its review when a write-back statement
\* failed: nothing of it is committed
C1_Witness ==
  \E p \in Slots :
    LET r == req[p] IN
    /\ r.kind = "materialize" /\ r.pc = "done" /\ r.failed /\ r.fault
    /\ r.out.materialized = "created"
    /\ db = r.pre

\* C2: once a handler that acquired a client is done, the transaction it
\* began on that client has been ended by a COMMIT or a ROLLBACK: the client
\* it released carries no transaction.
C2_TxEndedBeforeRelease ==
  \A p \in Slots :
    LET r == req[p] IN
    (r.pc = "done" /\ r.acq > 0) => conns[r.conn].tx = "none"

\* C3: a handler releases the client it acquired exactly once: never more
\* releases than acquisitions, as many once it is done, and no client is
\* left checked out when no request is running.
C3_ReleasedOnce ==
  /\ \A p \in Slots :
       LET r == req[p] IN
       /\ r.rel <= r.acq
       /\ r.acq <= 1
       /\ r.pc = "done" => r.rel = r.acq
  /\ (\E c \in Conns : conns[c].st = "busy") => \E p \in Slots : ~Free(p)

\* the early return of PATCH /api/reviews/:id/genre (400) released its client
C3_Witness ==
  \E p \in Slots :
    LET r == req[p] IN
    /\ r.kind = "patchGenre" /\ r.pc = "done" /\ r.status = 400
    /\ r.acq = 1 /\ r.rel = 1
    /\ conns[r.conn].st = "idle"

\* the rows of table t a statement on connection c sees
SeenBy(c, t) ==
  IF conns[c].tx = "none" THEN db[t]
  ELSE {r \in db[t] : r.id \notin (Ids(conns[c].ov.w[t]) \cup conns[c].ov.d[t])}
         \cup conns[c].ov.w[t]

CaseInsensitiveUnique(rows) ==
  \A a, b \in rows : Lower(a.name) = Lower(b.name) => a = b

C5_VariantKeepsIdTakesName ==
  \A p \in Slots :
    LET r == req[p] IN
    (/\ r.kind = "postCategory" /\ r.pc = "done" /\ r.status = 201
     /\ r.last.id # 0
     /\ r.last.name # r.categoryName
     /\ Lower(r.last.name) = Lower(r.categoryName))
      => /\ r.out.id = r.last.id
         /\ [id |-> r.out.id, name |-> r.categoryName] \in db.categories

\* C6: an upsert of a genre by name that supplies neither categoryId nor
\* categoryName leaves the category_id of a genre row that had one as it was.
C6_CategoryLinkKept ==
  \A p \in Slots :
    LET r == req[p] IN
    (/\ r.kind \in {"postGenre", "patchGenre", "materialize"} /\ r.pc = "done"
     /\ r.genreId = 0 /\ r.genreName # ""
     /\ r.categoryId = 0 /\ r.categoryName = "")
      => \A g \in r.pre.genres :
           (Lower(g.name) = Lower(r.genreName) /\ g.category_id # 0)
             => \E h \in db.genres : h.id = g.id /\ h.category_id = g.category_id

\* such an upsert went through on a genre that has a category
C6_Witness ==
  \E p \in Slots :
    LET r == req[p] IN
    /\ r.kind \in {"postGenre", "patchGenre", "materialize"} /\ r.pc = "done"
    /\ r.status \in {200, 201} /\ ~r.failed
    /\ r.genreId = 0 /\ r.genreName # ""
    /\ r.categoryId = 0 /\ r.categoryName = ""
    /\ \E g \in r.pre.genres :
         /\ Lower(g.name) = Lower(r.genreName)
         /\ g.category_id # 0
         /\ g \in db.genres

\* a materialize is done, none of its statements was made to fail, and the
\* ids it was given exist
MaterializeRan(r) ==
  r.kind = "materialize" /\ r.pc = "done" /\ ~r.fault /\ ArgsExist(r)

\* materialize answered "created": review r.id now exists, linked to a game
\* row named `name` that did not exist before
CreatedFor(r, name) ==
  /\ r.status = 200
  /\ r.out.materialized = "created"
  /\ r.out.id = r.id
  /\ \E rv \in db.reviews, g \in db.games :
       /\ rv.id = r.id
       /\ rv.game_id = g.id
       /\ g.name = name
       /\ g.id \notin Ids(r.pre.games)

\* C7 as stated: when archive row A has a non-blank game_name and no game row
\* has that name, materializing A answers "created", the review's id is A and
\* it is linked to a newly created game with that name.
C7_CreatedForUnknownName ==
  \A p \in Slots :
    LET r == req[p] IN
    MaterializeRan(r) =>
      \A a \in r.pre.archive :
        (/\ a.id = r.id
         /\ NonBlank(a.json["game_name"])
         /\ GamesNamed(r.pre, a.json["game_name"]) = {})
          => CreatedFor(r, a.json["game_name"])

\* C7, amended: the same for a game_name without surrounding whitespace
\* (materialize looks the game up, and creates it, under the trimmed name).
C7_CreatedForUnknownTrimmedName ==
  \A p \in Slots :
    LET r == req[p] IN
    MaterializeRan(r) =>
      \A a \in r.pre.archive :
        (/\ a.id = r.id
         /\ NonBlank(a.json["game_name"])
         /\ Trim(a.json["game_name"]) = a.json["game_name"]
         /\ GamesNamed(r.pre, a.json["game_name"]) = {})
          => CreatedFor(r, a.json["game_name"])

C7_Witness ==
  \E p \in Slots :
    LET r == req[p] IN
    \E a \in r.pre.archive :
      /\ r.kind = "materialize" /\ r.pc = "done" /\ ~r.failed
      /\ a.id = r.id
      /\ Trim(a.json["game_name"]) = a.json["game_name"]
      /\ NonBlank(a.json["game_name"])
      /\ GamesNamed(r.pre, a.json["game_name"]) = {}
      /\ r.pre.games # {}
      /\ CreatedFor(r, a.json["game_name"])

\* materialize answered "updated" with review rid, and the reviews table has
\* the rows (by id) it had
UpdatedTo(r, rid) ==
  /\ r.status = 200
  /\ r.out.materialized = "updated"
  /\ r.out.id = rid
  /\ Ids(db.reviews) = Ids(r.pre.reviews)

\* C8 as stated: when a game row named N has exactly one review R,
\* materializing another archive row B whose game_name is N answers
\* "updated" with review R and adds no row to reviews.
C8_UpdatesTheOneReview ==
  \A p \in Slots :
    LET r == req[p] IN
    MaterializeRan(r) =>
      \A a \in r.pre.archive, g \in r.pre.games, rv \in r.pre.reviews :
        (/\ a.id = r.id
         /\ a.json["game_name"] = g.name
         /\ {x \in r.pre.reviews : x.game_id = g.id} = {rv}
         /\ rv.id # a.id)
          => UpdatedTo(r, rv.id)

\* C8, amended: the same for a name N without surrounding whitespace.
C8_UpdatesTheOneReviewTrimmed ==
  \A p \in Slots :
    LET r == req[p] IN
    MaterializeRan(r) =>
      \A a \in r.pre.archive, g \in r.pre.games, rv \in r.pre.reviews :
        (/\ a.id = r.id
         /\ a.json["game_name"] = g.name
         /\ Trim(g.name) = g.name
         /\ {x \in r.pre.reviews : x.game_id = g.id} = {rv}
         /\ rv.id # a.id)
          => UpdatedTo(r, rv.id)

C8_Witness ==
  \E p \in Slots :
    LET r == req[p] IN
    \E a \in r.pre.archive, g \in r.pre.games, rv \in r.pre.reviews :
      /\ r.kind = "materialize" /\ r.pc = "done" /\ ~r.failed
      /\ a.id = r.id
      /\ a.json["game_name"] = g.name
      /\ Trim(g.name) = g.name
      /\ {x \in r.pre.reviews : x.game_id = g.id} = {rv}
      /\ rv.id # a.id
      /\ UpdatedTo(r, rv.id)

\* a materialize that went through, asked with a genre name and a category
\* name
MaterializedWithNames(r) ==
  /\ r.kind = "materialize" /\ r.pc = "done" /\ r.status = 200 /\ ~r.failed
  /\ r.genreId = 0 /\ r.genreName # ""
  /\ r.categoryId = 0 /\ r.categoryName # ""

\* C9 as stated: after materializing archive row A with genreName G and
\* categoryName C, its JSON shows genre = G and categoryName = C, and its
\* game_name is what it was before the call.
C9_ArchiveShowsGivenNames ==
  \A p \in Slots :
    LET r == req[p] IN
    MaterializedWithNames(r) =>
      \A a \in r.pre.archive, b \in db.archive :
        (a.id = r.id /\ b.id = r.id)
          => /\ b.json["genre"] = r.genreName
             /\ b.json["categoryName"] = r.categoryName
             /\ b.json["game_name"] = a.json["game_name"]

\* the name under which the genre asked as `name` is stored after the
\* upsert: the existing row's when one matched ignoring case, else `name`
StoredGenreName(genresBefore, name) ==
  LET hit == {g \in genresBefore : Lower(g.name) = Lower(name)} IN
  IF hit = {} THEN name ELSE (CHOOSE g \in hit : TRUE).name

\* C9, amended: the JSON shows the genre row's stored name (G, or the casing
\* of the row that already matched G ignoring case), categoryName = C, and
\* the trimmed game_name (the game_name as it was when it is blank).
C9_ArchiveShowsStoredNames ==
  \A p \in Slots :
    LET r == req[p] IN
    MaterializedWithNames(r) =>
      \A a \in r.pre.archive, b \in db.archive :
        (a.id = r.id /\ b.id = r.id)
          => /\ b.json["genre"] = StoredGenreName(r.pre.genres, r.genreName)
             /\ \E g \in db.genres : g.name = b.json["genre"]
             /\ b.json["categoryName"] = r.categoryName
             /\ b.json["game_name"] =
                  IF NonBlank(a.json["game_name"]) THEN Trim(a.json["game_name"])
                  ELSE a.json["game_name"]

\* the genre was already stored in another casing and the game_name was
\* padded: the archive row shows the stored casing and the trimmed name
C9_Witness ==
  \E p \in Slots :
    LET r == req[p] IN
    \E a \in r.pre.archive, b \in db.archive, g \in r.pre.genres :
      /\ MaterializedWithNames(r)
      /\ a.id = r.id /\ b.id = r.id
      /\ Lower(g.name) = Lower(r.genreName)
      /\ g.name # r.genreName
      /\ b.json["genre"] = g.name
      /\ b.json["categoryName"] = r.categoryName
      /\ a.json["game_name"] # Trim(a.json["game_name"])
      /\ b.json["game_name"] = Trim(a.json["game_name"])

\* an archive edit of review rv that went through, changing game_name to a
\* non-empty name no game row has; n is the number of reviews of rv's game
EditToNewName(r, rv, n) ==
  /\ r.kind = "putArchived" /\ r.pc = "done" /\ ~r.fault
  /\ rv.id = r.id
  /\ r.id \in Ids(r.pre.archive)
  /\ rv.game_id # 0
  /\ ~Falsy(r.body["game_name"])
  /\ GamesNamed(r.pre, r.body["game_name"]) = {}
  /\ n = Cardinality({x \in r.pre.reviews : x.game_id = rv.game_id})

\* the game row of rv carries the new name, no game row was added and rv
\* still references it
RenamedInPlace(r, rv) ==
  /\ db.games = {IF g.id = rv.game_id THEN [g EXCEPT !.name = r.body["game_name"]]
                 ELSE g : g \in r.pre.games}
  /\ \A x \in db.reviews : x.id = rv.id => x.game_id = rv.game_id
  /\ Ids(db.reviews) = Ids(r.pre.reviews)

\* one game row with the new name was added, rv references it and every
\* other review references the game it referenced
RelinkedToNewGame(r, rv) ==
  /\ \E g \in db.games :
       /\ g.id \notin Ids(r.pre.games)
       /\ g.name = r.body["game_name"]
       /\ db.games = r.pre.games \cup {g}
       /\ \A x \in db.reviews, y \in r.pre.reviews :
            x.id = y.id => x.game_id = IF x.id = rv.id THEN g.id ELSE y.game_id
  /\ Ids(db.reviews) = Ids(r.pre.reviews)

\* C10: when an archive edit changes game_name to a non-empty name that no
\* game row has, the review's game is renamed in place (no game row added)
\* if exactly one review references it, and otherwise a new game row is
\* created and only the edited review is re-linked to it.
C10_RenameOrRelink ==
  \A p \in Slots :
    LET r == req[p] IN
    (r.kind = "putArchived" /\ r.pc = "done") =>
      \A rv \in r.pre.reviews, n \in 1..Cardinality(r.pre.reviews) :
        EditToNewName(r, rv, n)
          => /\ r.status = 200
             /\ n = 1 => RenamedInPlace(r, rv)
             /\ n > 1 => RelinkedToNewGame(r, rv)

\* the edited review shared its game with another review
C10_Witness ==
  \E p \in Slots :
    LET r == req[p] IN
    \E rv \in r.pre.reviews :
      /\ EditToNewName(r, rv, 2)
      /\ r.status = 200
      /\ RelinkedToNewGame(r, rv)

\* C11 as stated: a review with the id of archive row A exists if and only
\* if materialize has been executed successfully for A: a successful
\* materialize of A leaves a review with A's id, and a review that appears
\* under the id of an archive row was put there by a successful materialize
\* of that row.
C11_ReviewIffMaterialized ==
  \A p \in Slots :
    LET r == req[p] IN
    (r.pc = "done" /\ ~r.failed) =>
      /\ (r.kind = "materialize" /\ r.status = 200) => r.id \in Ids(db.reviews)
      /\ \A a \in db.archive :
           (a.id \in Ids(db.reviews) /\ a.id \notin Ids(r.pre.reviews))
             => (r.kind = "materialize" /\ r.status = 200 /\ r.id = a.id)

\* the review rv was inserted by this POST /api/reviews together with its
\* archive row, under an id no archive row had
SubmittedBy(r, rv) ==
  /\ r.kind = "postReview" /\ r.status = 201
  /\ r.out.id = rv.id
  /\ rv.id \notin Ids(r.pre.archive)
  /\ rv.id \in Ids(db.archive)

\* the review rv was inserted by this materialize of archive row rv.id
CreatedBy(r, rv) ==
  /\ r.kind = "materialize" /\ r.status = 200
  /\ r.out.materialized = "created"
  /\ r.id = rv.id
  /\ rv.id \in Ids(r.pre.archive)

\* C11, amended: a review row comes into existence only through a
\* POST /api/reviews, which inserts it with its archive row under one fresh
\* id, or through a materialize of the archive row of its id that answers
\* "created"; and a materialize that answers "created" without a failed
\* statement leaves the review of that id.
C11_ReviewBySubmitOrCreate ==
  \A p \in Slots :
    LET r == req[p] IN
    r.kind # "none" =>
      /\ \A rv \in db.reviews :
           rv.id \notin Ids(r.pre.reviews) => (SubmittedBy(r, rv) \/ CreatedBy(r, rv))
      /\ (/\ r.kind = "materialize" /\ r.pc = "done" /\ ~r.failed
          /\ r.out.materialized = "created")
           => r.id \in Ids(db.reviews) \ Ids(r.pre.reviews)

\* a materialize answered "created" for an archive row while the review of
\* an earlier POST /api/reviews, never materialized, is there under its
\* archive row's id
C11_Witness ==
  \E p \in Slots :
    LET r == req[p] IN
    /\ r.kind = "materialize" /\ r.pc = "done" /\ ~r.failed /\ r.status = 200
    /\ r.out.materialized = "created"
    /\ r.id \in Ids(db.reviews) \ Ids(r.pre.reviews)
    /\ \E rv \in r.pre.reviews : rv.id \in Ids(r.pre.archive) /\ rv \in db.reviews

\* no two of the review rows reference the same game
OnePerGame(reviews) ==
  \A a, b \in reviews : (a.game_id = b.game_id /\ a.game_id # 0) => a = b

\* C12 as stated: in every reachable state at most one review row references
\* any given game_id.
C12_OneReviewPerGame == OnePerGame(db.reviews)

\* the request links a review to a game row that exists already and is not
\* the review's own: a POST /api/reviews under the name of an existing game,
\* or an archive edit whose merged game_name is the name of another game
LinksToExistingGame(r) ==
  \/ r.kind = "postReview" /\ GamesNamed(r.pre, r.body["game_name"]) # {}
  \/ /\ r.kind = "putArchived"
     /\ \E a \in r.pre.archive, rv \in r.pre.reviews, g \in r.pre.games :
          /\ a.id = r.id /\ rv.id = r.id
          /\ g.name = JsonMerge(a.json, r.body)["game_name"]
          /\ g.id # rv.game_id

\* C12, amended: a request keeps "at most one review per game_id" unless it
\* links a review to an existing game: materialize, DELETE, a POST
\* /api/reviews under a name no game has and an archive edit to a name no
\* other game has never make two reviews reference one game.
C12_OneReviewPerGameKept ==
  \A p \in Slots :
    LET r == req[p] IN
    (r.kind # "none" /\ ~LinksToExistingGame(r) /\ OnePerGame(r.pre.reviews))
      => OnePerGame(db.reviews)

\* a materialize found the one review of the archive row's game and
\* refreshed it instead of inserting a second one
C12_Witness ==
  \E p \in Slots :
    LET r == req[p] IN
    /\ r.kind = "materialize" /\ r.pc = "done" /\ ~r.failed /\ r.status = 200
    /\ r.out.materialized = "updated"
    /\ r.out.id # r.id
    /\ OnePerGame(r.pre.reviews)
    /\ \E rv \in db.reviews : rv.id = r.out.id /\ rv.game_id # 0
    /\ OnePerGame(db.reviews)

\* C13: a request answered with a validation error (400) has executed no
\* INSERT or UPDATE: nothing is committed and the client it used, if any,
\* holds no written row.
C13_NoWriteBeforeValidation ==
  \A p \in Slots :
    LET r == req[p] IN
    (r.pc = "done" /\ r.status = 400) =>
      /\ db = r.pre
      /\ r.acq > 0 => conns[r.conn].ov.w = EmptyDb

\* C14: POST /api/genres and PATCH /api/reviews/:id/genre answer with a
\* validation error (400) whenever no genre id is supplied and the genre
\* name is missing or empty after trimming, and no genre row carries such a
\* name afterwards.
C14_BlankGenreNameRejected ==
  \A p \in Slots :
    LET r == req[p] IN
    (/\ r.kind \in {"postGenre", "patchGenre"} /\ r.pc = "done" /\ ~r.fault
     /\ r.genreId = 0 /\ NameMissing(r.genreName))
      => /\ r.status = 400
         /\ \A g \in db.genres : ~NameMissing(g.name)

C16_UnknownIdIsNotFound ==
  \A p \in Slots :
    LET r == req[p] IN
    (/\ r.kind \in {"patchGenre", "postGenre", "materialize"}
     /\ r.pc = "done" /\ ~r.fault
     /\ \/ r.genreId \notin Ids(r.pre.genres) \cup {0}
        \/ r.categoryId \notin Ids(r.pre.categories) \cup {0})
      => (r.status = 404 /\ db = r.pre)

\* C17: when a write-back statement of materialize has failed, nothing of
\* the materialize is committed and the caller is answered with an error,
\* not with a success response.
C17_WriteBackFailureIsAnError ==
  \A p \in Slots :
    LET r == req[p] IN
    (r.kind = "materialize" /\ r.pc = "done" /\ r.swallowed) =>
      /\ db = r.pre
      /\ r.status # 200

\* C18: after a successful PUT /api/archived-reviews/:id the stored archive
\* JSON has, for every key present in the request, the request's value, and
\* for every key absent from it the value it had before.
C18_ShallowMerge ==
  \A p \in Slots :
    LET r == req[p] IN
    (r.kind = "putArchived" /\ r.pc = "done" /\ r.status = 200 /\ ~r.failed) =>
      /\ r.id \in Ids(r.pre.archive) \cap Ids(db.archive)
      /\ \A a \in r.pre.archive, b \in db.archive :
           (a.id = r.id /\ b.id = r.id) =>
             \A k \in JKeys :
               b.json[k] = IF r.body[k] # Undef THEN r.body[k] ELSE a.json[k]

\* an edit overwrote the game_name and kept the title the row had
C18_Witness ==
  \E p \in Slots :
    LET r == req[p] IN
    \E a \in r.pre.archive, b \in db.archive :
      /\ r.kind = "putArchived" /\ r.pc = "done" /\ r.status = 200 /\ ~r.failed
      /\ a.id = r.id /\ b.id = r.id
      /\ r.body["game_name"] \notin {Undef, a.json["game_name"]}
      /\ b.json["game_name"] = r.body["game_name"]
      /\ r.body["title"] = Undef
      /\ a.json["title"] # Undef
      /\ b.json["title"] = a.json["title"]

\* a successful archive edit of an id that has a normalized review
EditedWithReview(r) ==
  /\ r.kind = "putArchived" /\ r.pc = "done" /\ r.status = 200 /\ ~r.failed
  /\ r.id \in Ids(r.pre.reviews)

\* the review references a game whose name is the merged game_name, when
\* that is not empty
LinkedToNamedGame(rv, j) ==
  Falsy(j["game_name"]) \/
    \E g \in db.games : g.id = rv.game_id /\ g.name = j["game_name"]

\* a column equals a JSON field: the same value, or NULL for a missing or
\* null field
SameAs(col, field) == col = IF field = Undef THEN Null ELSE field

\* C19 as stated: after a successful archive edit of an id that has a
\* review, the review's title, review_text, rating and genre equal the
\* fields of the merged JSON, its lists equal the JSON's (empty when
\* absent), and its game is the one named by a non-empty merged game_name.
C19_ReviewEqualsMergedJson ==
  \A p \in Slots :
    LET r == req[p] IN
    EditedWithReview(r) =>
      \A rv \in db.reviews, b \in db.archive :
        (rv.id = r.id /\ b.id = r.id) =>
          /\ SameAs(rv.title, b.json["title"])
          /\ SameAs(rv.review_text, b.json["review_text"])
          /\ SameAs(rv.rating, b.json["rating"])
          /\ SameAs(rv.genre, b.json["genre"])
          /\ rv.positive_points = OrEmptyList(b.json["positive_points"])
          /\ rv.negative_points = OrEmptyList(b.json["negative_points"])
          /\ rv.tags = OrEmptyList(b.json["tags"])
          /\ LinkedToNamedGame(rv, b.json)

\* C19, amended: the same, except that an empty title, review_text or genre
\* of the merged JSON is stored as NULL in the review row.
C19_ReviewFollowsMergedJson ==
  \A p \in Slots :
    LET r == req[p] IN
    EditedWithReview(r) =>
      /\ r.id \in Ids(db.reviews)
      /\ \A rv \in db.reviews, b \in db.archive :
           (rv.id = r.id /\ b.id = r.id) =>
             /\ rv.title = OrNull(b.json["title"])
             /\ rv.review_text = OrNull(b.json["review_text"])
             /\ SameAs(rv.rating, b.json["rating"])
             /\ rv.genre = OrNull(b.json["genre"])
             /\ rv.positive_points = OrEmptyList(b.json["positive_points"])
             /\ rv.negative_points = OrEmptyList(b.json["negative_points"])
             /\ rv.tags = OrEmptyList(b.json["tags"])
             /\ LinkedToNamedGame(rv, b.json)

\* an edit changed title and genre of an archive row whose review then
\* carries both, still linked to the game the JSON names
C19_Witness ==
  \E p \in Slots :
    LET r == req[p] IN
    \E rv \in db.reviews, b \in db.archive, old \in r.pre.reviews :
      /\ EditedWithReview(r)
      /\ rv.id = r.id /\ b.id = r.id /\ old.id = r.id
      /\ r.body["title"] \notin {Undef, ""}
      /\ old.title # rv.title
      /\ rv.title = b.json["title"]
      /\ rv.genre = b.json["genre"]
      /\ ~Falsy(b.json["game_name"])
      /\ LinkedToNamedGame(rv, b.json)

\* C20: a successful POST /api/reviews adds exactly one review row and one
\* archive row under one fresh id, links the review to the game whose name
\* is game_name (the existing game row when there is one, else exactly one
\* new game row), and changes no other review, archive or game row.
C20_SubmissionAddsOnePair ==
  \A p \in Slots :
    LET r == req[p] IN
    (r.kind = "postReview" /\ r.pc = "done" /\ r.status = 201 /\ ~r.failed) =>
      \E rv \in db.reviews, ar \in db.archive, g \in db.games :
        /\ rv.id = r.out.id /\ ar.id = r.out.id
        /\ r.out.id \notin Ids(r.pre.reviews) \cup Ids(r.pre.archive)
        /\ db.reviews = r.pre.reviews \cup {rv}
        /\ db.archive = r.pre.archive \cup {ar}
        /\ ar.json = OriginalReviewJson(r.body)
        /\ rv.game_id = g.id
        /\ g.name = r.body["game_name"]
        /\ IF GamesNamed(r.pre, r.body["game_name"]) # {}
             THEN g \in r.pre.games /\ db.games = r.pre.games
             ELSE g.id \notin Ids(r.pre.games) /\ db.games = r.pre.games \cup {g}

\* the tables no endpoint deletes from
KeptTables == {"games", "categories", "genres", "archive"}

\* every row id of the kept tables in a is an id in b
RowsKept(a, b) == \A t \in KeptTables : Ids(a[t]) \subseteq Ids(b[t])

\* C21: no step of any request removes a game, category, genre or archive
\* row: the committed id sets of these tables only grow or stay equal, and
\* the step in which DELETE /api/reviews/:id runs its statement leaves every
\* archive row as it was.
C21_NeverRemoved ==
  [][db' # db =>
       /\ RowsKept(db, db')
       /\ \A p \in Slots :
            req[p].pc = "d_query" => db'.archive = db.archive]_vars

\* a DELETE removed the review of an id whose archive row is kept unchanged
C21_Witness ==
  \E p \in Slots :
    LET r == req[p] IN
    /\ r.kind = "deleteReview" /\ r.pc = "done" /\ r.status = 200
    /\ r.id \in Ids(r.pre.reviews) \ Ids(db.reviews)
    /\ \E a \in r.pre.archive : a.id = r.id /\ a \in db.archive
    /\ RowsKept(r.pre, db)

\* C25: a write made by a request that ended with a 400 validation response
\* never becomes part of the committed state: the category row such a
\* request left uncommitted on its client is not committed while the next
\* request, which names no category itself, runs on that client or after.
C25_RejectedWriteNeverCommitted ==
  \A p \in Slots :
    LET r == req[p] IN
    (r.categoryName = "" /\ r.categoryId = 0) =>
      \A x \in r.left : x \notin db.categories

\* C26 as stated: every normalized review that shares its id with an archive
\* row has the title, review_text and rating of that archive row's JSON.
C26_ReviewMatchesArchive ==
  \A rv \in db.reviews, a \in db.archive :
    rv.id = a.id =>
      /\ SameAs(rv.title, a.json["title"])
      /\ SameAs(rv.review_text, a.json["review_text"])
      /\ SameAs(rv.rating, a.json["rating"])

\* the same with an empty title or review_text of the JSON stored as NULL
MatchesArchive(d) ==
  \A rv \in d.reviews, a \in d.archive :
    rv.id = a.id =>
      /\ rv.title = OrNull(a.json["title"])
      /\ rv.review_text = OrNull(a.json["review_text"])
      /\ SameAs(rv.rating, a.json["rating"])

\* the request is a materialize of an archive row whose game already has a
\* review under another id: that review is refreshed from this row's JSON
RefreshesOtherReview(r) ==
  /\ r.kind = "materialize"
  /\ \E a \in r.pre.archive, g \in r.pre.games, rv \in r.pre.reviews :
       /\ a.id = r.id
       /\ g.name = GameNameOf(a.json)
       /\ rv.game_id = g.id
       /\ rv.id # r.id

\* C26, amended: a request keeps every review in line with the archive row of
\* its id (an empty title or review_text being NULL in the review) unless it
\* is a materialize of an archive row whose game already has a review under
\* another id, which refreshes that review from the other row's JSON.
C26_ReviewMatchKept ==
  \A p \in Slots :
    LET r == req[p] IN
    (r.kind # "none" /\ ~RefreshesOtherReview(r) /\ MatchesArchive(r.pre))
      => MatchesArchive(db)

\* an archive edit changed the title of an archive row and of its review
C26_Witness ==
  \E p \in Slots :
    LET r == req[p] IN
    \E rv \in db.reviews, a \in db.archive, old \in r.pre.reviews :
      /\ r.kind = "putArchived" /\ r.pc = "done" /\ r.status = 200 /\ ~r.failed
      /\ rv.id = r.id /\ a.id = r.id /\ old.id = r.id
      /\ r.body["title"] # Undef
      /\ old.title # rv.title
      /\ rv.title = a.json["title"]
      /\ MatchesArchive(db)

\* a PATCH /api/reviews/:id/genre that names a genre, by an id that exists
\* or by name, for an id that is an archive row and no review
PatchOfArchiveOnly(r) ==
  /\ r.kind = "patchGenre" /\ r.pc = "done" /\ ~r.fault
  /\ r.id \in Ids(r.pre.archive) \ Ids(r.pre.reviews)
  /\ r.genreId # 0 \/ r.genreName # ""
  /\ ArgsExist(r)

\* g is the genre the request resolves
ResolvedBy(r, g) ==
  IF r.genreId # 0 THEN g.id = r.genreId
  ELSE Lower(g.name) = Lower(r.genreName)

\* the JSON shows the genre's stored name and, when the genre is linked to a
\* category, that category's name
ShowsGenre(j, g) ==
  /\ j["genre"] = g.name
  /\ \A c \in db.categories :
       c.id = g.category_id => j["categoryName"] = c.name

\* C29: PATCH /api/reviews/:id/genre on an id that exists only as an archive
\* row answers 200, commits the resolved genre's name (and its category's
\* name when it has one) into that row's JSON, and creates no review row and
\* no game row.
C29_ArchiveOnlyPatched ==
  \A p \in Slots :
    LET r == req[p] IN
    PatchOfArchiveOnly(r) =>
      /\ r.status = 200
      /\ \E b \in db.archive, g \in db.genres :
           b.id = r.id /\ ResolvedBy(r, g) /\ ShowsGenre(b.json, g)
      /\ Ids(db.reviews) \subseteq Ids(r.pre.reviews)
      /\ Ids(db.games) \subseteq Ids(r.pre.games)

\* such a PATCH by genre name and category name on an archive row that
\* showed neither
C29_Witness ==
  \E p \in Slots :
    LET r == req[p] IN
    \E a \in r.pre.archive, b \in db.archive, g \in db.genres :
      /\ PatchOfArchiveOnly(r) /\ r.status = 200
      /\ r.genreName # "" /\ r.categoryName # ""
      /\ a.id = r.id /\ b.id = r.id
      /\ a.json["genre"] = Undef /\ a.json["categoryName"] = Undef
      /\ ResolvedBy(r, g) /\ g.category_id # 0
      /\ ShowsGenre(b.json, g)
      /\ b.json["categoryName"] = r.categoryName
      /\ r.id \notin Ids(db.reviews)

\* C27: materializing the same archive row twice in a row with the same
\* options succeeds both times, whatever the archive JSON (a missing or
\* blank game_name included): the second call answers 200 with
\* materialized = "updated" and leaves as many review rows as the first.
C27_SecondMaterializeUpdates ==
  \A p \in Slots :
    LET r == req[p] IN
    (r.kind = "materialize" /\ r.pc = "done" /\ r.again /\ ~r.fault) =>
      /\ r.status = 200
      /\ r.out.materialized = "updated"
      /\ Cardinality(db.reviews) = Cardinality(r.pre.reviews)

\* a genre assignment to an archive row that went through: a materialize
\* that resolved a genre, or a PATCH /api/reviews/:id/genre on an id that is
\* an archive row and no review
GenreAssigned(r) ==
  /\ r.pc = "done" /\ r.status = 200 /\ ~r.failed
  /\ r.genreId # 0 \/ r.genreName # ""
  /\ r.id \in Ids(r.pre.archive)
  /\ \/ r.kind = "materialize"
     \/ r.kind = "patchGenre" /\ r.id \notin Ids(r.pre.reviews)

\* C28: after a successful genre assignment to an archive row, the row's
\* JSON agrees with the genres and categories tables: genre is the stored
\* name of the resolved genre, and categoryName is the name of the category
\* that genre is linked to, or is absent when the genre has no category.
C28_ArchiveAgreesWithTables ==
  \A p \in Slots :
    LET r == req[p] IN
    GenreAssigned(r) =>
      \A b \in db.archive :
        b.id = r.id =>
          \E g \in db.genres :
            /\ ResolvedBy(r, g)
            /\ b.json["genre"] = g.name
            /\ IF g.category_id = 0
                 THEN b.json["categoryName"] = Undef
                 ELSE \E c \in db.categories :
                        c.id = g.category_id /\ b.json["categoryName"] = c.name

\* the name of the game the review rv references in the rows d
ResolvedName(d, rv) ==
  LET gs == {g \in d.games : g.id = rv.game_id} IN
  IF gs = {} THEN Null ELSE (CHOOSE g \in gs : TRUE).name

\* C23: PUT /api/archived-reviews/:id never changes the game name that a
\* review other than the one with that id resolves to through its game_id:
\* the step in which the edit commits leaves every other committed review
\* with the game name it had, also when another request has linked a review
\* to the same game while the edit was running.
C23_EditKeepsOtherGameNames ==
  [][\A p \in Slots :
       (/\ req[p].kind = "putArchived"
        /\ req[p].pc = "commit"
        /\ req'[p].pc = "done")
         => \A rv \in db.reviews, rw \in db'.reviews :
              (rv.id = rw.id /\ rv.id # req[p].id)
                => ResolvedName(db', rw) = ResolvedName(db, rv)]_vars

\* C24: in every reachable state, also while requests that name the same
\* game run interleaved, at most one game row exists for any game name.
C24_OneGamePerName ==
  \A a, b \in db.games : a.name = b.name => a = b

(***************************************************************************)
(* Properties of the browser's API functions.                              *)
(***************************************************************************)
\* the request a call of updateReviewGenre(id, opts) sends to a route
RequestOf(k, method, path) == <<method, path, k.id, k.opts>>

\* the call returned the body that the route answered to its own request
ReturnedFrom(k, path) ==
  /\ ~k.thrown
  /\ k.result.status \in 200..299
  /\ k.result.by = path /\ k.result.id = k.id /\ k.result.opts = k.opts

\* C22: a call of updateReviewGenre(id, opts) sends the PATCH first; when the
\* PATCH succeeds its body is returned and nothing else is sent; when it
\* answers 404 exactly one materialize request for the same id and options
\* follows and its result is the call's (the body, or the error when it
\* fails); on any other status the call throws and sends no materialize
\* request
C22_PatchThenMaterializeOn404 ==
  \A c \in Calls :
    LET k == client.calls[c] IN
    k.fn = "updateReviewGenre" =>
      /\ Len(k.sent) \in {1, 2}
      /\ k.sent[1] = RequestOf(k, "PATCH", "reviews/genre")
      /\ Len(k.sent) = 2 =>
           k.first = 404 /\ k.sent[2] = RequestOf(k, "POST", "materialize")
      /\ k.pc = "done" =>
           /\ k.first \in 200..299 =>
                Len(k.sent) = 1 /\ ReturnedFrom(k, "reviews/genre")
           /\ k.first = 404 =>
                /\ Len(k.sent) = 2
                /\ IF k.resp.status \in 200..299
                     THEN ReturnedFrom(k, "materialize") /\ k.result = k.resp
                     ELSE k.thrown
           /\ k.first \notin (200..299) \cup {404} =>
                Len(k.sent) = 1 /\ k.thrown

\* a call whose PATCH answered 404 has returned what the materialize request
\* answered
C22_Witness ==
  \E c \in Calls :
    LET k == client.calls[c] IN
    /\ k.fn = "updateReviewGenre" /\ k.pc = "done" /\ k.first = 404
    /\ Len(k.sent) = 2 /\ ReturnedFrom(k, "materialize")
    /\ k.opts.genreName = "Rpg"

\* C30: a non-forced getGenres() that has returned took the cached list only
\* while the cache's expiry time was still ahead of the clock, and returned
\* no list the server had read before a genre was created whose createGenre
\* had already resolved when the call was made
C30_CacheNeverStale ==
  \A c \in Calls :
    LET k == client.calls[c] IN
    (k.fn = "getGenres" /\ k.pc = "done" /\ ~k.thrown /\ ~k.force) =>
      /\ k.cached => k.until > k.at
      /\ k.result.asOf >= k.must

====
